---- MODULE Spec2Model ----
(***************************************************************************)
(* Array builders of arrow/src/array/builder.rs as state machines.         *)
(*                                                                         *)
(* Every builder method is a pure operator from the builder's state (a     *)
(* record of its fields) to its next state, named after the method.  An    *)
(* action applies one method to the builder a client program owns and      *)
(* records what the call returned.  Buffers are sequences of bytes.        *)
(***************************************************************************)
EXTENDS Integers, Sequences, FiniteSets, TLC

VARIABLES
    target,   \* which builder the client program constructed
    pb,       \* PrimitiveBuilder<T>
    bb,       \* BooleanBuilder
    fsl,      \* FixedSizeListBuilder<UInt8Builder>
    ub,       \* UnionBuilder
    db,       \* PrimitiveDictionaryBuilder<K, V> / StringDictionaryBuilder<K>
    seeded,   \* the StringArray new_with_dictionary was given, while the builder
              \* still holds its entries (until the first finish)
    buf,      \* BufferBuilder<T>
    bits,     \* BooleanBufferBuilder
    lb,       \* ListBuilder / LargeListBuilder / BinaryBuilder / StringBuilder
    fsb,      \* FixedSizeBinaryBuilder / DecimalBuilder
    sb,       \* StructBuilder
    twin,     \* a builder created when the last finish returned (or at the start)
              \* and given every call made since
    call,     \* the last call: its name and what the claims read of its arguments
    ret,      \* what the last call returned: Ok, an error, a key, an array, a panic
    hist,     \* history of the current round: the slots the calls asked for
    done,     \* history of the round that the array in ret was built from
    nulled    \* whether a null slot was asked for since the builder was created

vars == <<target, pb, bb, fsl, ub, db, seeded, buf, bits, lb, fsb, sb, twin,
          call, ret, hist, done, nulled>>

\* ------------------------------------------------------------------ bounds

\* Longest builder (in slots) the primitive and boolean programs build.
MaxLen == 3
\* Longest slice handed to append_slice / append_values.
MaxSlice == 2
\* FixedSizeListBuilder program: most child elements, most list slots, and
\* the largest stride a builder is declared with.
MaxValuesLen == 4
MaxListLen == 2
MaxStride == 2
\* UnionBuilder program: most rows.
MaxUnionLen == 3
\* Dictionary program: most append / append_null calls in a round.
MaxDictLen == 4
\* Dictionary overflow program: most distinct values appended.
MaxDistinct == 257
\* BufferBuilder program: most elements in a round.
MaxBufLen == 3
\* BooleanBufferBuilder program: most bits in a round.
MaxBits == 10
\* List, binary and string programs: most child elements in a round.
MaxChildLen == 3
\* Seeded dictionary program: most entries of the dictionary handed in.
MaxSeedLen == 2
\* Dictionary rounds program: most appends of a round.
MaxRoundLen == 2
\* Many-fields union program: most distinct field names.
MaxFieldCount == 129
\* Schema program: most fields of a schema.
MaxFields == 2
\* StructBuilder program: most slots of the struct and of each child.
MaxStructLen == 2

\* ------------------------------------------------------------ native types

\* Option<T>: None, or Some(x) holding one x.
None == <<>>
Some(x) == <<x>>
is_some(o) == Len(o) = 1
unwrap(o) == o[1]

\* What a call returns: Ok(()), Ok(x), Err(e), or a panic.
Ok == [status |-> "Ok", value |-> None]
Err(e) == [status |-> e, value |-> None]
Returned(x) == [status |-> "Ok", value |-> Some(x)]
Panic == [status |-> "panic", value |-> None]

Int8Type   == [name |-> "Int8",   size |-> 1, signed |-> TRUE]
UInt8Type  == [name |-> "UInt8",  size |-> 1, signed |-> FALSE]
Int16Type  == [name |-> "Int16",  size |-> 2, signed |-> TRUE]
Int32Type  == [name |-> "Int32",  size |-> 4, signed |-> TRUE]
UInt32Type == [name |-> "UInt32", size |-> 4, signed |-> FALSE]
Int64Type  == [name |-> "Int64",  size |-> 8, signed |-> TRUE]

\* mem::size_of::<T>()
size_of(T) == T.size

RECURSIVE le_bytes(_, _)
le_bytes(v, n) == IF n = 0 THEN <<>> ELSE <<v % 256>> \o le_bytes(v \div 256, n - 1)

\* ToByteSlice::to_byte_slice: the native-endian (little-endian) two's
\* complement bytes of a value of type T.
to_byte_slice(v, T) == le_bytes(v, size_of(T))

RECURSIVE from_le_bytes(_, _)
from_le_bytes(bs, signed) ==
    IF Len(bs) = 1
    THEN IF signed /\ bs[1] >= 128 THEN bs[1] - 256 ELSE bs[1]
    ELSE bs[1] + 256 * from_le_bytes(Tail(bs), signed)

\* Buffer::typed_data::<T>(): the elements a byte buffer holds.
typed_data(bytes, T) ==
    [i \in 1..(Len(bytes) \div size_of(T)) |->
        from_le_bytes(SubSeq(bytes, (i - 1) * size_of(T) + 1, i * size_of(T)), T.signed)]

RECURSIVE concat_bytes(_, _)
concat_bytes(xs, T) ==
    IF xs = <<>> THEN <<>> ELSE to_byte_slice(Head(xs), T) \o concat_bytes(Tail(xs), T)

zeros(n) == [i \in 1..n |-> 0]

\* ------------------------------------------------------------------ bit_util

\* bit_util::ceil
ceil(value, divisor) == (value + divisor - 1) \div divisor

\* bit_util::round_upto_multiple_of_64
round_upto_multiple_of_64(num) == ceil(num, 64) * 64

\* bit_util::get_bit on a byte sequence, bit i counted from 0, LSB first.
get_bit(data, i) == (data[(i \div 8) + 1] \div (2 ^ (i % 8))) % 2 = 1

\* bit_util::set_bit_raw: data[i >> 3] |= BIT_MASK[i & 7]
set_bit_raw(data, i) ==
    IF get_bit(data, i) THEN data
    ELSE [data EXCEPT ![(i \div 8) + 1] = @ + 2 ^ (i % 8)]

RECURSIVE popcount_byte(_)
popcount_byte(b) == IF b = 0 THEN 0 ELSE (b % 2) + popcount_byte(b \div 2)

RECURSIVE count_set_bits(_)
\* Buffer::count_set_bits: the set bits of the whole buffer.
count_set_bits(data) ==
    IF data = <<>> THEN 0 ELSE popcount_byte(Head(data)) + count_set_bits(Tail(data))

\* -------------------------------------------------------------- MutableBuffer

Max(a, b) == IF a >= b THEN a ELSE b

\* MutableBuffer::new(capacity): empty, capacity rounded up to 64 bytes.
MutableBuffer_new(capacity) ==
    [data |-> <<>>, capacity |-> round_upto_multiple_of_64(capacity)]

\* MutableBuffer::from_len_zeroed(len): len zero bytes.
MutableBuffer_from_len_zeroed(len) ==
    [data |-> zeros(len), capacity |-> round_upto_multiple_of_64(len)]

\* MutableBuffer::reserve(additional): capacity >= len + additional.
MutableBuffer_reserve(self, additional) ==
    LET required_cap == Len(self.data) + additional IN
    IF required_cap > self.capacity
    THEN [self EXCEPT !.capacity =
              Max(round_upto_multiple_of_64(required_cap), self.capacity * 2)]
    ELSE self

\* MutableBuffer::resize(new_len, 0): zero-fill on growth, truncate otherwise.
MutableBuffer_resize(self, new_len) ==
    IF new_len > Len(self.data)
    THEN LET r == MutableBuffer_reserve(self, new_len - Len(self.data)) IN
         [r EXCEPT !.data = self.data \o zeros(new_len - Len(self.data))]
    ELSE [self EXCEPT !.data = SubSeq(self.data, 1, new_len)]

\* MutableBuffer::extend_from_slice(items) / push(item), on the items' bytes.
MutableBuffer_extend_from_slice(self, bytes) ==
    LET r == MutableBuffer_reserve(self, Len(bytes)) IN
    [r EXCEPT !.data = self.data \o bytes]

\* ------------------------------------------------------------ BufferBuilder<T>

\* BufferBuilder::new(capacity)
BufferBuilder_new(capacity, T) ==
    [buffer |-> MutableBuffer_new(capacity * size_of(T)), len |-> 0]

\* BufferBuilder::capacity
BufferBuilder_capacity(self, T) == self.buffer.capacity \div size_of(T)

\* Mutant: the length moves, the byte region does not.
BufferBuilder_advance_len_only(self, i, T) ==
    [self EXCEPT !.len = @ + i]

\* BufferBuilder::advance(i): i zero elements.
BufferBuilder_advance(self, i, T) ==
    [buffer |-> MutableBuffer_resize(self.buffer, (self.len + i) * size_of(T)),
     len |-> self.len + i]

\* BufferBuilder::reserve(n)
BufferBuilder_reserve(self, n, T) ==
    [self EXCEPT !.buffer = MutableBuffer_reserve(self.buffer, n * size_of(T))]

\* BufferBuilder::append(v)
BufferBuilder_append(self, v, T) ==
    LET r == BufferBuilder_reserve(self, 1, T) IN
    [buffer |-> MutableBuffer_extend_from_slice(r.buffer, to_byte_slice(v, T)),
     len |-> self.len + 1]

\* Mutant: one copy of v, whatever n is.
BufferBuilder_append_n_once(self, n, v, T) ==
    BufferBuilder_append(self, v, T)

RECURSIVE push_n(_, _, _)
\* for _ in 0..n { buffer.push(v) }, v given as its bytes
push_n(buffer, n, bytes) ==
    IF n = 0 THEN buffer
    ELSE push_n(MutableBuffer_extend_from_slice(buffer, bytes), n - 1, bytes)

\* BufferBuilder::append_n(n, v)
BufferBuilder_append_n(self, n, v, T) ==
    LET r == BufferBuilder_reserve(self, n, T) IN
    [buffer |-> push_n(r.buffer, n, to_byte_slice(v, T)),
     len |-> self.len + n]

\* BufferBuilder::append_slice(slice)
BufferBuilder_append_slice(self, slice, T) ==
    [buffer |-> MutableBuffer_extend_from_slice(self.buffer, concat_bytes(slice, T)),
     len |-> self.len + Len(slice)]

\* Mutant: the builder keeps its buffer.
BufferBuilder_finish_keeps_buffer(self) ==
    [buf |-> self.buffer.data, self |-> [self EXCEPT !.len = 0]]

\* BufferBuilder::finish: the frozen bytes, and the builder it leaves.
BufferBuilder_finish(self) ==
    [buf |-> self.buffer.data,
     self |-> [buffer |-> MutableBuffer_new(0), len |-> 0]]

\* ------------------------------------------------------- BooleanBufferBuilder

\* BooleanBufferBuilder::new(capacity)
BooleanBufferBuilder_new(capacity) ==
    [buffer |-> MutableBuffer_from_len_zeroed(ceil(capacity, 8)), len |-> 0]

\* BooleanBufferBuilder::capacity
BooleanBufferBuilder_capacity(self) == self.buffer.capacity * 8

\* BooleanBufferBuilder::advance(additional)
BooleanBufferBuilder_advance(self, additional) ==
    LET new_len == self.len + additional
        new_len_bytes == ceil(new_len, 8) IN
    [buffer |-> IF new_len_bytes > Len(self.buffer.data)
                THEN MutableBuffer_resize(self.buffer, new_len_bytes)
                ELSE self.buffer,
     len |-> new_len]

\* BooleanBufferBuilder::reserve(additional)
BooleanBufferBuilder_reserve(self, additional) ==
    LET capacity == self.len + additional IN
    IF capacity > BooleanBufferBuilder_capacity(self)
    THEN [self EXCEPT !.buffer =
              MutableBuffer_reserve(self.buffer, ceil(capacity, 8) - Len(self.buffer.data))]
    ELSE self

\* BooleanBufferBuilder::append(v)
BooleanBufferBuilder_append(self, v) ==
    LET a == BooleanBufferBuilder_advance(self, 1) IN
    IF v THEN [a EXCEPT !.buffer.data = set_bit_raw(a.buffer.data, a.len - 1)]
    ELSE a

RECURSIVE set_bits_from(_, _, _, _)
\* The loop shared by append_n and append_slice: sets bit offset + i for each
\* i with slice[i] true, i = k..Len(slice), k counted from 1.
set_bits_from(data, offset, slice, k) ==
    IF k > Len(slice) THEN data
    ELSE set_bits_from(IF slice[k] THEN set_bit_raw(data, offset + k - 1) ELSE data,
                       offset, slice, k + 1)

\* Mutant: the bits are added but never set.
BooleanBufferBuilder_append_n_unset(self, additional, v) ==
    BooleanBufferBuilder_advance(self, additional)

\* BooleanBufferBuilder::append_n(additional, v)
BooleanBufferBuilder_append_n(self, additional, v) ==
    LET a == BooleanBufferBuilder_advance(self, additional) IN
    IF additional > 0 /\ v
    THEN [a EXCEPT !.buffer.data =
              set_bits_from(a.buffer.data, a.len - additional,
                            [i \in 1..additional |-> TRUE], 1)]
    ELSE a

\* BooleanBufferBuilder::append_slice(slice)
BooleanBufferBuilder_append_slice(self, slice) ==
    LET a == BooleanBufferBuilder_advance(self, Len(slice)) IN
    [a EXCEPT !.buffer.data = set_bits_from(a.buffer.data, a.len - Len(slice), slice, 1)]

\* BooleanBufferBuilder::finish
BooleanBufferBuilder_finish(self) ==
    [buf |-> self.buffer.data,
     self |-> [buffer |-> MutableBuffer_new(0), len |-> 0]]

\* ------------------------------------------------------------------ ArrayData

\* ArrayDataBuilder::build: an array's data; the null count is read from the
\* validity buffer when there is one and is 0 otherwise.
ArrayData_build(data_type, len, buffers, null_bit_buffer, child_data) ==
    [data_type |-> data_type, len |-> len, buffers |-> buffers,
     null_bit_buffer |-> null_bit_buffer, child_data |-> child_data,
     null_count |-> IF ~is_some(null_bit_buffer) THEN 0
                    ELSE len - Cardinality({i \in 0..(len - 1) :
                                               get_bit(unwrap(null_bit_buffer), i)})]

\* Array::is_null(i), i counted from 0.
is_null(array, i) ==
    is_some(array.null_bit_buffer) /\ ~get_bit(unwrap(array.null_bit_buffer), i)

\* PrimitiveArray::value(i), i counted from 0.
value(array, i, T) == typed_data(array.buffers[1], T)[i + 1]

\* ---------------------------------------------------------- PrimitiveBuilder<T>

\* PrimitiveBuilder::new(capacity)
PrimitiveBuilder_new(capacity, T) ==
    [values_builder |-> BufferBuilder_new(capacity, T), bitmap_builder |-> None]

\* ArrayBuilder::len for PrimitiveBuilder
PrimitiveBuilder_len(self) == self.values_builder.len

\* Mutant: the bitmap is created without the true bits of the earlier slots.
materialize_bitmap_builder_no_backfill(self, T) ==
    IF is_some(self.bitmap_builder) THEN self
    ELSE [self EXCEPT !.bitmap_builder =
              Some(BooleanBufferBuilder_advance(BooleanBufferBuilder_new(0),
                                                self.values_builder.len))]

\* PrimitiveBuilder::materialize_bitmap_builder
materialize_bitmap_builder(self, T) ==
    IF is_some(self.bitmap_builder) THEN self
    ELSE LET b0 == BooleanBufferBuilder_new(0)
             b1 == BooleanBufferBuilder_reserve(b0, BufferBuilder_capacity(self.values_builder, T))
             b2 == BooleanBufferBuilder_append_n(b1, self.values_builder.len, TRUE)
         IN [self EXCEPT !.bitmap_builder = Some(b2)]

\* PrimitiveBuilder::append_value(v)
PrimitiveBuilder_append_value(self, v, T) ==
    [values_builder |-> BufferBuilder_append(self.values_builder, v, T),
     bitmap_builder |-> IF is_some(self.bitmap_builder)
                        THEN Some(BooleanBufferBuilder_append(unwrap(self.bitmap_builder), TRUE))
                        ELSE None]

\* PrimitiveBuilder::append_null
PrimitiveBuilder_append_null(self, T) ==
    LET m == materialize_bitmap_builder(self, T) IN
    [values_builder |-> BufferBuilder_advance(m.values_builder, 1, T),
     bitmap_builder |-> Some(BooleanBufferBuilder_append(unwrap(m.bitmap_builder), FALSE))]

\* PrimitiveBuilder::append_option(v)
PrimitiveBuilder_append_option(self, v, T) ==
    IF ~is_some(v) THEN PrimitiveBuilder_append_null(self, T)
    ELSE PrimitiveBuilder_append_value(self, unwrap(v), T)

\* PrimitiveBuilder::append_slice(v)
PrimitiveBuilder_append_slice(self, v, T) ==
    [values_builder |-> BufferBuilder_append_slice(self.values_builder, v, T),
     bitmap_builder |-> IF is_some(self.bitmap_builder)
                        THEN Some(BooleanBufferBuilder_append_n(unwrap(self.bitmap_builder),
                                                                Len(v), TRUE))
                        ELSE None]

\* Mutant: the bitmap is materialised by every call, null or not, and before
\* the lengths are compared.
PrimitiveBuilder_append_values_eager(self, values, is_valid, T) ==
    LET m == materialize_bitmap_builder(self, T) IN
    IF Len(values) # Len(is_valid)
    THEN [result |-> "InvalidArgumentError", self |-> m]
    ELSE [result |-> "Ok",
          self |-> [values_builder |-> BufferBuilder_append_slice(m.values_builder, values, T),
                    bitmap_builder |->
                        Some(BooleanBufferBuilder_append_slice(unwrap(m.bitmap_builder),
                                                               is_valid))]]

\* PrimitiveBuilder::append_values(values, is_valid): the Result and the
\* builder the call leaves.
PrimitiveBuilder_append_values(self, values, is_valid, T) ==
    IF Len(values) # Len(is_valid)
    THEN [result |-> "InvalidArgumentError", self |-> self]
    ELSE LET m == IF \E i \in 1..Len(is_valid) : ~is_valid[i]
                  THEN materialize_bitmap_builder(self, T) ELSE self
         IN [result |-> "Ok",
             self |-> [values_builder |-> BufferBuilder_append_slice(m.values_builder, values, T),
                       bitmap_builder |->
                           IF is_some(m.bitmap_builder)
                           THEN Some(BooleanBufferBuilder_append_slice(unwrap(m.bitmap_builder),
                                                                       is_valid))
                           ELSE None]]

\* Mutant: the builder is left without its bitmap builder.
PrimitiveBuilder_finish_drops_bitmap(self, T) ==
    LET len == PrimitiveBuilder_len(self)
        bf == IF is_some(self.bitmap_builder)
              THEN Some(BooleanBufferBuilder_finish(unwrap(self.bitmap_builder))) ELSE None
        null_bit_buffer == IF is_some(bf) THEN Some(unwrap(bf).buf) ELSE None
        null_count == len - (IF is_some(null_bit_buffer)
                             THEN count_set_bits(unwrap(null_bit_buffer)) ELSE len)
        vf == BufferBuilder_finish(self.values_builder)
    IN [array |-> ArrayData_build(T.name, len, <<vf.buf>>,
                                  IF null_count > 0 THEN null_bit_buffer ELSE None, <<>>),
        self |-> [values_builder |-> vf.self, bitmap_builder |-> None]]

\* PrimitiveBuilder::finish: the PrimitiveArray's data and the builder it leaves.
PrimitiveBuilder_finish(self, T) ==
    LET len == PrimitiveBuilder_len(self)
        bf == IF is_some(self.bitmap_builder)
              THEN Some(BooleanBufferBuilder_finish(unwrap(self.bitmap_builder))) ELSE None
        null_bit_buffer == IF is_some(bf) THEN Some(unwrap(bf).buf) ELSE None
        null_count == len - (IF is_some(null_bit_buffer)
                             THEN count_set_bits(unwrap(null_bit_buffer)) ELSE len)
        vf == BufferBuilder_finish(self.values_builder)
    IN [array |-> ArrayData_build(T.name, len, <<vf.buf>>,
                                  IF null_count > 0 THEN null_bit_buffer ELSE None, <<>>),
        self |-> [values_builder |-> vf.self,
                  bitmap_builder |-> IF is_some(bf) THEN Some(unwrap(bf).self) ELSE None]]

\* PrimitiveBuilder::finish_dict(values): the DictionaryArray's data, with the
\* value array as its child, and the builder it leaves.
PrimitiveBuilder_finish_dict(self, values, T) ==
    LET len == PrimitiveBuilder_len(self)
        bf == IF is_some(self.bitmap_builder)
              THEN Some(BooleanBufferBuilder_finish(unwrap(self.bitmap_builder))) ELSE None
        null_bit_buffer == IF is_some(bf) THEN Some(unwrap(bf).buf) ELSE None
        null_count == len - (IF is_some(null_bit_buffer)
                             THEN count_set_bits(unwrap(null_bit_buffer)) ELSE len)
        vf == BufferBuilder_finish(self.values_builder)
    IN [array |-> ArrayData_build(<<"Dictionary", T.name, values.data_type>>, len, <<vf.buf>>,
                                  IF null_count > 0 THEN null_bit_buffer ELSE None,
                                  <<values>>),
        self |-> [values_builder |-> vf.self,
                  bitmap_builder |-> IF is_some(bf) THEN Some(unwrap(bf).self) ELSE None]]

\* ------------------------------------------------------------- BooleanBuilder

\* BooleanBuilder::new(capacity)
BooleanBuilder_new(capacity) ==
    [values_builder |-> BooleanBufferBuilder_new(capacity),
     bitmap_builder |-> BooleanBufferBuilder_new(capacity)]

\* BooleanBuilder::append_value(v)
BooleanBuilder_append_value(self, v) ==
    [bitmap_builder |-> BooleanBufferBuilder_append(self.bitmap_builder, TRUE),
     values_builder |-> BooleanBufferBuilder_append(self.values_builder, v)]

\* BooleanBuilder::append_null
\* Mutant: the value bits are not advanced.
BooleanBuilder_append_null_no_advance(self) ==
    [self EXCEPT !.bitmap_builder = BooleanBufferBuilder_append(@, FALSE)]

BooleanBuilder_append_null(self) ==
    [bitmap_builder |-> BooleanBufferBuilder_append(self.bitmap_builder, FALSE),
     values_builder |-> BooleanBufferBuilder_advance(self.values_builder, 1)]

\* BooleanBuilder::append_option(v)
BooleanBuilder_append_option(self, v) ==
    IF ~is_some(v) THEN BooleanBuilder_append_null(self)
    ELSE BooleanBuilder_append_value(self, unwrap(v))

\* BooleanBuilder::append_slice(v)
BooleanBuilder_append_slice(self, v) ==
    [bitmap_builder |-> BooleanBufferBuilder_append_n(self.bitmap_builder, Len(v), TRUE),
     values_builder |-> BooleanBufferBuilder_append_slice(self.values_builder, v)]

\* BooleanBuilder::append_values(values, is_valid)
BooleanBuilder_append_values(self, values, is_valid) ==
    IF Len(values) # Len(is_valid)
    THEN [result |-> "InvalidArgumentError", self |-> self]
    ELSE [result |-> "Ok",
          self |-> [bitmap_builder |-> BooleanBufferBuilder_append_slice(self.bitmap_builder, is_valid),
                    values_builder |-> BooleanBufferBuilder_append_slice(self.values_builder, values)]]

\* BooleanBuilder::finish
BooleanBuilder_finish(self) ==
    LET len == self.values_builder.len
        bf == BooleanBufferBuilder_finish(self.bitmap_builder)
        null_count == len - count_set_bits(bf.buf)
        vf == BooleanBufferBuilder_finish(self.values_builder)
    IN [array |-> ArrayData_build("Boolean", len, <<vf.buf>>,
                                  IF null_count > 0 THEN Some(bf.buf) ELSE None, <<>>),
        self |-> [values_builder |-> vf.self, bitmap_builder |-> bf.self]]


\* ------------------------------------------------- FixedSizeListBuilder<T>

\* FixedSizeListBuilder::new / with_capacity over a UInt8Builder child.
FixedSizeListBuilder_new(values_builder, length) ==
    [bitmap_builder |-> BooleanBufferBuilder_new(PrimitiveBuilder_len(values_builder)),
     values_builder |-> values_builder,
     len |-> 0,
     list_len |-> length]

\* FixedSizeListBuilder::append(is_valid)
FixedSizeListBuilder_append(self, is_valid) ==
    [self EXCEPT !.bitmap_builder = BooleanBufferBuilder_append(@, is_valid),
                 !.len = @ + 1]

\* The condition of the assert! in FixedSizeListBuilder::finish.
finish_length_check(values_len, len, list_len) == values_len \div len = list_len

\* FixedSizeListBuilder::finish: whether the assert! fired, the array's data
\* when it did not, and the builder as the call leaves it.
FixedSizeListBuilder_finish(self) ==
    LET len == self.len
        vf == PrimitiveBuilder_finish(self.values_builder, UInt8Type)
        values_data == vf.array
        reset == [self EXCEPT !.len = 0, !.values_builder = vf.self]
    IN IF len # 0 /\ ~finish_length_check(values_data.len, len, self.list_len)
       THEN [panicked |-> TRUE, array |-> None, self |-> reset]
       ELSE LET bf == BooleanBufferBuilder_finish(self.bitmap_builder) IN
            [panicked |-> FALSE,
             array |-> Some(ArrayData_build("FixedSizeList", len, <<>>,
                                            Some(bf.buf), <<values_data>>)),
             self |-> [reset EXCEPT !.bitmap_builder = bf.self]]

\* ------------------------------------ GenericListBuilder<OffsetSize, UInt8Builder>

\* GenericListBuilder::with_capacity(values_builder, capacity)
GenericListBuilder_with_capacity(values_builder, capacity, OffsetSize) ==
    [offsets_builder |-> BufferBuilder_append(BufferBuilder_new(capacity + 1, OffsetSize),
                                              0, OffsetSize),
     bitmap_builder |-> BooleanBufferBuilder_new(capacity),
     values_builder |-> values_builder,
     len |-> 0]

\* GenericListBuilder::new(values_builder)
GenericListBuilder_new(values_builder, OffsetSize) ==
    GenericListBuilder_with_capacity(values_builder, PrimitiveBuilder_len(values_builder),
                                     OffsetSize)

\* Mutant: every slot is recorded as valid.
GenericListBuilder_append_always_valid(self, is_valid, OffsetSize) ==
    [self EXCEPT
        !.offsets_builder = BufferBuilder_append(@, PrimitiveBuilder_len(self.values_builder),
                                                 OffsetSize),
        !.bitmap_builder = BooleanBufferBuilder_append(@, TRUE),
        !.len = @ + 1]

\* GenericListBuilder::append(is_valid)
GenericListBuilder_append(self, is_valid, OffsetSize) ==
    [self EXCEPT
        !.offsets_builder = BufferBuilder_append(@, PrimitiveBuilder_len(self.values_builder),
                                                 OffsetSize),
        !.bitmap_builder = BooleanBufferBuilder_append(@, is_valid),
        !.len = @ + 1]

\* Mutant: the offsets builder is left empty, without the leading 0.
GenericListBuilder_finish_no_first_offset(self, OffsetSize) ==
    LET len == self.len
        vf == PrimitiveBuilder_finish(self.values_builder, UInt8Type)
        of == BufferBuilder_finish(self.offsets_builder)
        bf == BooleanBufferBuilder_finish(self.bitmap_builder)
    IN [array |-> ArrayData_build(IF size_of(OffsetSize) = 8 THEN "LargeList" ELSE "List",
                                  len, <<of.buf>>, Some(bf.buf), <<vf.array>>),
        self |-> [offsets_builder |-> of.self,
                  bitmap_builder |-> bf.self,
                  values_builder |-> vf.self,
                  len |-> 0]]

\* Mutant: the offsets builder is re-seeded with the length the child had
\* before it was finished.
GenericListBuilder_finish_stale_offset(self, OffsetSize) ==
    LET len == self.len
        vf == PrimitiveBuilder_finish(self.values_builder, UInt8Type)
        of == BufferBuilder_finish(self.offsets_builder)
        bf == BooleanBufferBuilder_finish(self.bitmap_builder)
    IN [array |-> ArrayData_build(IF size_of(OffsetSize) = 8 THEN "LargeList" ELSE "List",
                                  len, <<of.buf>>, Some(bf.buf), <<vf.array>>),
        self |-> [offsets_builder |-> BufferBuilder_append(of.self,
                                          PrimitiveBuilder_len(self.values_builder), OffsetSize),
                  bitmap_builder |-> bf.self,
                  values_builder |-> vf.self,
                  len |-> 0]]

\* GenericListBuilder::finish: the list array's data and the builder it leaves.
GenericListBuilder_finish(self, OffsetSize) ==
    LET len == self.len
        vf == PrimitiveBuilder_finish(self.values_builder, UInt8Type)
        of == BufferBuilder_finish(self.offsets_builder)
        bf == BooleanBufferBuilder_finish(self.bitmap_builder)
    IN [array |-> ArrayData_build(IF size_of(OffsetSize) = 8 THEN "LargeList" ELSE "List",
                                  len, <<of.buf>>, Some(bf.buf), <<vf.array>>),
        self |-> [offsets_builder |-> BufferBuilder_append(of.self, 0, OffsetSize),
                  bitmap_builder |-> bf.self,
                  values_builder |-> vf.self,
                  len |-> 0]]

\* ------------------------------------------------- arrays made of list arrays

\* GenericBinaryArray::from / GenericStringArray::from(GenericListArray): the
\* offsets and the child's bytes as the two buffers, the list's validity.
from_list_array(v, data_type) ==
    ArrayData_build(data_type, v.len, <<v.buffers[1], v.child_data[1].buffers[1]>>,
                    v.null_bit_buffer, <<>>)

\* FixedSizeBinaryArray::from(FixedSizeListArray): the child's bytes as the
\* buffer, the list's validity.
from_fixed_size_list_array(v, data_type) ==
    ArrayData_build(data_type, v.len, <<v.child_data[1].buffers[1]>>, v.null_bit_buffer, <<>>)

\* ------------------------------------------------- GenericStringBuilder<i32>

\* One code point as UTF-8 (code points below 0x800).
utf8(cp) == IF cp < 128 THEN <<cp>> ELSE <<192 + (cp \div 64), 128 + (cp % 64)>>

RECURSIVE as_bytes(_)
\* str::as_bytes: the UTF-8 bytes of a string, given as its code points.
as_bytes(str) == IF str = <<>> THEN <<>> ELSE utf8(Head(str)) \o as_bytes(Tail(str))

\* StringBuilder::new(capacity)
StringBuilder_new(capacity) ==
    [builder |-> GenericListBuilder_new(PrimitiveBuilder_new(capacity, UInt8Type), Int32Type)]

\* Mutant: the slot is delimited before the bytes are written.
StringBuilder_append_value_slot_first(self, str) ==
    LET list == GenericListBuilder_append(self.builder, TRUE, Int32Type)
    IN [builder |-> [list EXCEPT !.values_builder =
                        PrimitiveBuilder_append_slice(@, as_bytes(str), UInt8Type)]]

\* GenericStringBuilder::append_value(value)
StringBuilder_append_value(self, str) ==
    LET values == PrimitiveBuilder_append_slice(self.builder.values_builder,
                                                as_bytes(str), UInt8Type)
    IN [builder |-> GenericListBuilder_append([self.builder EXCEPT !.values_builder = values],
                                              TRUE, Int32Type)]

\* GenericStringBuilder::append_null
StringBuilder_append_null(self) ==
    [builder |-> GenericListBuilder_append(self.builder, FALSE, Int32Type)]

\* GenericStringBuilder::finish
StringBuilder_finish(self) ==
    LET r == GenericListBuilder_finish(self.builder, Int32Type) IN
    [array |-> from_list_array(r.array, "Utf8"), self |-> [builder |-> r.self]]

\* GenericStringBuilder::append(is_valid)
StringBuilder_append(self, is_valid) ==
    [builder |-> GenericListBuilder_append(self.builder, is_valid, Int32Type)]

\* StringBuilder::with_capacity(item_capacity, data_capacity)
StringBuilder_with_capacity(item_capacity, data_capacity) ==
    [builder |-> GenericListBuilder_with_capacity(PrimitiveBuilder_new(data_capacity, UInt8Type),
                                                  item_capacity, Int32Type)]

RECURSIVE from_utf8(_)
\* The string (its code points) that UTF-8 bytes hold (code points below 0x800).
from_utf8(bytes) ==
    IF bytes = <<>> THEN <<>>
    ELSE IF bytes[1] < 128 THEN <<bytes[1]>> \o from_utf8(Tail(bytes))
    ELSE <<(bytes[1] - 192) * 64 + (bytes[2] - 128)>> \o from_utf8(Tail(Tail(bytes)))

\* Array::is_valid(i), i counted from 0.
Array_is_valid(array, i) == ~is_null(array, i)

\* StringArray::value_data: the buffer of the strings' bytes.
value_data(array) == array.buffers[2]

\* StringArray::value(i), i counted from 0: the string between offsets i and
\* i + 1 of the value data.
StringArray_value(array, i) ==
    LET offsets == typed_data(array.buffers[1], Int32Type) IN
    from_utf8(SubSeq(value_data(array), offsets[i + 1] + 1, offsets[i + 2]))

RECURSIVE StringArray_from(_)
\* StringArray::from(Vec<Option<&str>>): the array of these strings and nulls,
\* laid out as a StringBuilder lays it out.
StringArray_from(v) ==
    LET RECURSIVE built(_)
        built(k) ==
            IF k = 0 THEN StringBuilder_new(0)
            ELSE IF v[k] = <<>> THEN StringBuilder_append_null(built(k - 1))
            ELSE StringBuilder_append_value(built(k - 1), v[k][1])
    IN StringBuilder_finish(built(Len(v))).array

\* ------------------------------------------------- GenericBinaryBuilder<i32>

\* BinaryBuilder::new(capacity)
BinaryBuilder_new(capacity) ==
    [builder |-> GenericListBuilder_new(PrimitiveBuilder_new(capacity, UInt8Type), Int32Type)]

\* GenericBinaryBuilder::append_byte(value)
BinaryBuilder_append_byte(self, v) ==
    [builder |-> [self.builder EXCEPT
                     !.values_builder = PrimitiveBuilder_append_value(@, v, UInt8Type)]]

\* GenericBinaryBuilder::append_value(value)
BinaryBuilder_append_value(self, bytes) ==
    LET values == PrimitiveBuilder_append_slice(self.builder.values_builder, bytes, UInt8Type)
    IN [builder |-> GenericListBuilder_append([self.builder EXCEPT !.values_builder = values],
                                              TRUE, Int32Type)]

\* GenericBinaryBuilder::append(is_valid)
BinaryBuilder_append(self, is_valid) ==
    [builder |-> GenericListBuilder_append(self.builder, is_valid, Int32Type)]

\* GenericBinaryBuilder::append_null
BinaryBuilder_append_null(self) == BinaryBuilder_append(self, FALSE)

\* GenericBinaryBuilder::finish
BinaryBuilder_finish(self) ==
    LET r == GenericListBuilder_finish(self.builder, Int32Type) IN
    [array |-> from_list_array(r.array, "Binary"), self |-> [builder |-> r.self]]

\* ------------------------------------------------------ FixedSizeBinaryBuilder

\* FixedSizeListBuilder::value_length
FixedSizeListBuilder_value_length(self) == self.list_len

\* FixedSizeBinaryBuilder::new(capacity, byte_width)
FixedSizeBinaryBuilder_new(capacity, byte_width) ==
    [builder |-> FixedSizeListBuilder_new(PrimitiveBuilder_new(capacity, UInt8Type), byte_width)]

\* Mutant: the slice is written to the child before its length is compared.
FixedSizeBinaryBuilder_append_value_late_check(self, bytes) ==
    LET values == PrimitiveBuilder_append_slice(self.builder.values_builder, bytes, UInt8Type)
        written == [self.builder EXCEPT !.values_builder = values] IN
    IF FixedSizeListBuilder_value_length(self.builder) # Len(bytes)
    THEN [result |-> Err("InvalidArgumentError"), self |-> [builder |-> written]]
    ELSE [result |-> Ok, self |-> [builder |-> FixedSizeListBuilder_append(written, TRUE)]]

\* FixedSizeBinaryBuilder::append_value(value): the Result and the builder
\* the call leaves.
FixedSizeBinaryBuilder_append_value(self, bytes) ==
    IF FixedSizeListBuilder_value_length(self.builder) # Len(bytes)
    THEN [result |-> Err("InvalidArgumentError"), self |-> self]
    ELSE LET values == PrimitiveBuilder_append_slice(self.builder.values_builder, bytes,
                                                     UInt8Type)
         IN [result |-> Ok,
             self |-> [builder |-> FixedSizeListBuilder_append(
                                       [self.builder EXCEPT !.values_builder = values], TRUE)]]

\* Mutant: no bytes are written for a null slot.
FixedSizeBinaryBuilder_append_null_no_bytes(self) ==
    [self EXCEPT !.builder = FixedSizeListBuilder_append(self.builder, FALSE)]

\* FixedSizeBinaryBuilder::append_null / DecimalBuilder::append_null
FixedSizeBinaryBuilder_append_null(self) ==
    LET length == FixedSizeListBuilder_value_length(self.builder)
        values == PrimitiveBuilder_append_slice(self.builder.values_builder, zeros(length),
                                                UInt8Type)
    IN [self EXCEPT !.builder =
            FixedSizeListBuilder_append([self.builder EXCEPT !.values_builder = values], FALSE)]

\* FixedSizeBinaryBuilder::finish: whether the list's finish panicked, the
\* array, the builder the call leaves.
FixedSizeBinaryBuilder_finish(self) ==
    LET r == FixedSizeListBuilder_finish(self.builder) IN
    [panicked |-> r.panicked,
     array |-> IF r.panicked THEN None
               ELSE Some(from_fixed_size_list_array(
                             unwrap(r.array),
                             <<"FixedSizeBinary", FixedSizeListBuilder_value_length(self.builder)>>)),
     self |-> [self EXCEPT !.builder = r.self]]

\* -------------------------------------------------------------- DecimalBuilder

\* DecimalBuilder::new(capacity, precision, scale): the byte width is 16.
DecimalBuilder_new(capacity, precision, scale) ==
    [builder |-> FixedSizeListBuilder_new(PrimitiveBuilder_new(capacity, UInt8Type), 16),
     precision |-> precision,
     scale |-> scale]

\* Mutant: only the low 8 bytes are kept.
from_i128_to_fixed_size_bytes_low_half(v, size) ==
    IF size > 16 THEN [result |-> Err("InvalidArgumentError"), bytes |-> <<>>]
    ELSE [result |-> Ok, bytes |-> SubSeq(le_bytes(v, 16), 1, 8)]

\* DecimalBuilder::from_i128_to_fixed_size_bytes(v, size)
from_i128_to_fixed_size_bytes(v, size) ==
    IF size > 16 THEN [result |-> Err("InvalidArgumentError"), bytes |-> <<>>]
    ELSE LET res == le_bytes(v, 16)
             start_byte == 16 - size
         IN [result |-> Ok, bytes |-> SubSeq(res, start_byte + 1, 16)]

\* DecimalBuilder::append_value(value)
DecimalBuilder_append_value(self, v) ==
    LET value_as_bytes ==
            from_i128_to_fixed_size_bytes(v, FixedSizeListBuilder_value_length(self.builder))
    IN IF value_as_bytes.result # Ok THEN [result |-> value_as_bytes.result, self |-> self]
       ELSE IF FixedSizeListBuilder_value_length(self.builder) # Len(value_as_bytes.bytes)
       THEN [result |-> Err("InvalidArgumentError"), self |-> self]
       ELSE LET values == PrimitiveBuilder_append_slice(self.builder.values_builder,
                                                        value_as_bytes.bytes, UInt8Type)
            IN [result |-> Ok,
                self |-> [self EXCEPT !.builder = FixedSizeListBuilder_append(
                                          [self.builder EXCEPT !.values_builder = values], TRUE)]]

\* DecimalBuilder::finish
DecimalBuilder_finish(self) ==
    LET r == FixedSizeListBuilder_finish(self.builder) IN
    [panicked |-> r.panicked,
     array |-> IF r.panicked THEN None
               ELSE Some(from_fixed_size_list_array(
                             unwrap(r.array), <<"Decimal", self.precision, self.scale>>)),
     self |-> [self EXCEPT !.builder = r.self]]

\* --------------------------------------------------------------- StructBuilder

\* A DataType is a tuple: its kind, then what the kind is over (the fields of
\* a Struct, the item type of a List).  Of the kinds make_builder has an arm
\* for, Boolean, Int32, Utf8 and Struct are modelled.
RECURSIVE make_builder_panics(_)
\* Whether make_builder(datatype, _) panics: DataType::Null is unimplemented!(),
\* a kind without an arm hits the panic! of the last arm, and a Struct panics
\* when the builder of one of its fields does.
make_builder_panics(datatype) ==
    CASE datatype[1] \in {"Boolean", "Int32", "Utf8"} -> FALSE
      [] datatype[1] = "Struct" ->
            \E i \in 1..Len(datatype[2]) : make_builder_panics(datatype[2][i])
      [] datatype[1] \in {"Null", "List"} -> TRUE

RECURSIVE StructBuilder_from_fields(_, _)
RECURSIVE make_builder(_, _)
\* make_builder(datatype, capacity) when it returns: the boxed builder, kept
\* with the data type it was made for and its concrete type.
make_builder(datatype, capacity) ==
    CASE datatype[1] = "Boolean" ->
            [datatype |-> datatype, type |-> "BooleanBuilder",
             builder |-> BooleanBuilder_new(capacity)]
      [] datatype[1] = "Int32" ->
            [datatype |-> datatype, type |-> "Int32Builder",
             builder |-> PrimitiveBuilder_new(capacity, Int32Type)]
      [] datatype[1] = "Utf8" ->
            [datatype |-> datatype, type |-> "StringBuilder",
             builder |-> StringBuilder_new(capacity)]
      [] datatype[1] = "Struct" ->
            [datatype |-> datatype, type |-> "StructBuilder",
             builder |-> StructBuilder_from_fields(datatype[2], capacity)]

\* Any::downcast_mut::<T>() of a boxed builder: the builder when T is its
\* concrete type.
downcast_mut(f, T) == IF f.type = T THEN Some(f.builder) ELSE None

RECURSIVE ArrayBuilder_len(_)
\* ArrayBuilder::len of a boxed builder
ArrayBuilder_len(f) ==
    CASE f.type = "BooleanBuilder" -> f.builder.values_builder.len
      [] f.type = "Int32Builder" -> PrimitiveBuilder_len(f.builder)
      [] f.type = "StringBuilder" -> f.builder.builder.len
      [] f.type = "StructBuilder" -> f.builder.len

RECURSIVE StructBuilder_finish(_)
RECURSIVE ArrayBuilder_finish(_)
\* ArrayBuilder::finish of a boxed builder
ArrayBuilder_finish(f) ==
    LET r == CASE f.type = "BooleanBuilder" -> BooleanBuilder_finish(f.builder)
               [] f.type = "Int32Builder" -> PrimitiveBuilder_finish(f.builder, Int32Type)
               [] f.type = "StringBuilder" -> StringBuilder_finish(f.builder)
               [] f.type = "StructBuilder" -> StructBuilder_finish(f.builder)
    IN [array |-> r.array, self |-> [f EXCEPT !.builder = r.self]]

\* StructBuilder::new(fields, field_builders)
StructBuilder_new(fields, field_builders) ==
    [fields |-> fields,
     field_builders |-> field_builders,
     bitmap_builder |-> BooleanBufferBuilder_new(0),
     len |-> 0]

\* Mutant: the field builders are pushed in reverse field order.
StructBuilder_from_fields_reversed(fields, capacity) ==
    StructBuilder_new(fields, [i \in 1..Len(fields) |->
                                  make_builder(fields[Len(fields) + 1 - i], capacity)])

\* StructBuilder::from_fields(fields, capacity)
StructBuilder_from_fields(fields, capacity) ==
    StructBuilder_new(fields, [i \in 1..Len(fields) |-> make_builder(fields[i], capacity)])

\* Whether StructBuilder::from_fields(fields, _) panics: when make_builder
\* does for one of the fields.
from_fields_panics(fields) == \E i \in 1..Len(fields) : make_builder_panics(fields[i])

\* Mutant: the boxed builder is handed out whatever T is.
StructBuilder_field_builder_unchecked(self, T, i) == Some(self.field_builders[i + 1].builder)

\* StructBuilder::field_builder::<T>(i), i counted from 0
StructBuilder_field_builder(self, T, i) == downcast_mut(self.field_builders[i + 1], T)

\* StructBuilder::num_fields
StructBuilder_num_fields(self) == Len(self.field_builders)

\* ArrayBuilder::len for StructBuilder
StructBuilder_len(self) == self.len

\* Mutant: the call also finishes every child builder.
StructBuilder_append_finishes_children(self, is_valid) ==
    [self EXCEPT !.field_builders = [i \in 1..Len(@) |-> ArrayBuilder_finish(@[i]).self],
                 !.bitmap_builder = BooleanBufferBuilder_append(@, is_valid),
                 !.len = @ + 1]

\* StructBuilder::append(is_valid)
StructBuilder_append(self, is_valid) ==
    [self EXCEPT !.bitmap_builder = BooleanBufferBuilder_append(@, is_valid),
                 !.len = @ + 1]

\* StructBuilder::append_null
StructBuilder_append_null(self) == StructBuilder_append(self, FALSE)

\* Mutant: len is not set back to 0.
StructBuilder_finish_keeps_len(self) ==
    LET fs == [i \in 1..Len(self.field_builders) |-> ArrayBuilder_finish(self.field_builders[i])]
        child_data == [i \in 1..Len(fs) |-> fs[i].array]
        bf == BooleanBufferBuilder_finish(self.bitmap_builder)
        null_count == self.len - count_set_bits(bf.buf)
    IN [array |-> ArrayData_build(<<"Struct", self.fields>>, self.len, <<>>,
                                  IF null_count > 0 THEN Some(bf.buf) ELSE None, child_data),
        self |-> [self EXCEPT !.field_builders = [i \in 1..Len(fs) |-> fs[i].self],
                              !.bitmap_builder = bf.self]]

\* Mutant: the validity buffer is attached whatever the null count is.
StructBuilder_finish_always_bitmap(self) ==
    LET fs == [i \in 1..Len(self.field_builders) |-> ArrayBuilder_finish(self.field_builders[i])]
        child_data == [i \in 1..Len(fs) |-> fs[i].array]
        bf == BooleanBufferBuilder_finish(self.bitmap_builder)
    IN [array |-> ArrayData_build(<<"Struct", self.fields>>, self.len, <<>>,
                                  Some(bf.buf), child_data),
        self |-> [self EXCEPT !.field_builders = [i \in 1..Len(fs) |-> fs[i].self],
                              !.bitmap_builder = bf.self,
                              !.len = 0]]

\* StructBuilder::finish: the struct array's data and the builder it leaves.
StructBuilder_finish(self) ==
    LET fs == [i \in 1..Len(self.field_builders) |-> ArrayBuilder_finish(self.field_builders[i])]
        child_data == [i \in 1..Len(fs) |-> fs[i].array]
        bf == BooleanBufferBuilder_finish(self.bitmap_builder)
        null_count == self.len - count_set_bits(bf.buf)
    IN [array |-> ArrayData_build(<<"Struct", self.fields>>, self.len, <<>>,
                                  IF null_count > 0 THEN Some(bf.buf) ELSE None, child_data),
        self |-> [self EXCEPT !.field_builders = [i \in 1..Len(fs) |-> fs[i].self],
                              !.bitmap_builder = bf.self,
                              !.len = 0]]

\* ------------------------------------------------------- dictionary builders

\* The largest value of a native integer type (of at most 2 bytes; wider
\* types hold every number a program here reaches).
max_value(T) ==
    CASE size_of(T) = 1 -> IF T.signed THEN 127 ELSE 255
      [] size_of(T) = 2 -> IF T.signed THEN 32767 ELSE 65535
      [] OTHER -> 2147483647

\* ArrowNativeType::from_usize for K::Native: None outside K's range.
from_usize(v, K) == IF v <= max_value(K) THEN Some(v) ELSE None

\* HashMap::insert: the map with name bound to x.
insert(map, name, x) ==
    [n \in DOMAIN map \cup {name} |-> IF n = name THEN x ELSE map[n]]

\* HashMap::remove
remove(map, name) == [n \in DOMAIN map \ {name} |-> map[n]]

\* HashMap::get
get(map, k) == IF k \in DOMAIN map THEN Some(map[k]) ELSE None

\* PrimitiveDictionaryBuilder::new / StringDictionaryBuilder::new; K is the
\* key type the builder is generic over.
DictionaryBuilder_new(keys_builder, values_builder, K) ==
    [K |-> K, keys_builder |-> keys_builder, values_builder |-> values_builder,
     map |-> <<>>]

\* Mutant: the next key is the number of keys appended so far.
PrimitiveDictionaryBuilder_append_keys_len(self, v, K, V) ==
    LET found == get(self.map, to_byte_slice(v, V)) IN
    IF is_some(found)
    THEN [result |-> Returned(unwrap(found)),
          self |-> [self EXCEPT !.keys_builder =
                        PrimitiveBuilder_append_value(@, unwrap(found), K)]]
    ELSE LET key == from_usize(PrimitiveBuilder_len(self.keys_builder), K) IN
         IF ~is_some(key)
         THEN [result |-> Err("DictionaryKeyOverflowError"), self |-> self]
         ELSE [result |-> Returned(unwrap(key)),
               self |-> [self EXCEPT
                            !.values_builder = PrimitiveBuilder_append_value(@, v, V),
                            !.keys_builder = PrimitiveBuilder_append_value(@, unwrap(key), K),
                            !.map = insert(@, to_byte_slice(v, V), unwrap(key))]]

\* Mutant: the value is appended to the values builder before the key is
\* computed.
PrimitiveDictionaryBuilder_append_value_first(self, v, K, V) ==
    LET found == get(self.map, to_byte_slice(v, V)) IN
    IF is_some(found)
    THEN [result |-> Returned(unwrap(found)),
          self |-> [self EXCEPT !.keys_builder =
                        PrimitiveBuilder_append_value(@, unwrap(found), K)]]
    ELSE LET key == from_usize(PrimitiveBuilder_len(self.values_builder), K)
             appended == [self EXCEPT
                             !.values_builder = PrimitiveBuilder_append_value(@, v, V)] IN
         IF ~is_some(key)
         THEN [result |-> Err("DictionaryKeyOverflowError"), self |-> appended]
         ELSE [result |-> Returned(unwrap(key)),
               self |-> [appended EXCEPT
                            !.keys_builder = PrimitiveBuilder_append_value(@, unwrap(key), K),
                            !.map = insert(@, to_byte_slice(v, V), unwrap(key))]]

\* PrimitiveDictionaryBuilder::append(value): the Result and the builder the
\* call leaves.
PrimitiveDictionaryBuilder_append(self, v, K, V) ==
    LET found == get(self.map, to_byte_slice(v, V)) IN
    IF is_some(found)
    THEN [result |-> Returned(unwrap(found)),
          self |-> [self EXCEPT !.keys_builder =
                        PrimitiveBuilder_append_value(@, unwrap(found), K)]]
    ELSE LET key == from_usize(PrimitiveBuilder_len(self.values_builder), K) IN
         IF ~is_some(key)
         THEN [result |-> Err("DictionaryKeyOverflowError"), self |-> self]
         ELSE [result |-> Returned(unwrap(key)),
               self |-> [self EXCEPT
                            !.values_builder = PrimitiveBuilder_append_value(@, v, V),
                            !.keys_builder = PrimitiveBuilder_append_value(@, unwrap(key), K),
                            !.map = insert(@, to_byte_slice(v, V), unwrap(key))]]

\* Mutant: the call also forgets the values seen so far.
DictionaryBuilder_append_null_clears_map(self, K) ==
    [self EXCEPT !.keys_builder = PrimitiveBuilder_append_null(@, K), !.map = <<>>]

\* PrimitiveDictionaryBuilder::append_null / StringDictionaryBuilder::append_null
DictionaryBuilder_append_null(self, K) ==
    [self EXCEPT !.keys_builder = PrimitiveBuilder_append_null(@, K)]

\* PrimitiveDictionaryBuilder::finish
PrimitiveDictionaryBuilder_finish(self, K, V) ==
    LET vf == PrimitiveBuilder_finish(self.values_builder, V)
        kf == PrimitiveBuilder_finish_dict(self.keys_builder, vf.array, K)
    IN [array |-> kf.array,
        self |-> [self EXCEPT !.keys_builder = kf.self, !.values_builder = vf.self,
                              !.map = <<>>]]

\* Mutant: the map is not consulted, every value is appended as a new one.
StringDictionaryBuilder_append_no_lookup(self, str, K) ==
    LET key == from_usize(self.values_builder.builder.len, K) IN
    IF ~is_some(key)
    THEN [result |-> Err("DictionaryKeyOverflowError"), self |-> self]
    ELSE [result |-> Returned(unwrap(key)),
          self |-> [self EXCEPT
                       !.values_builder = StringBuilder_append_value(@, str),
                       !.keys_builder = PrimitiveBuilder_append_value(@, unwrap(key), K),
                       !.map = insert(@, as_bytes(str), unwrap(key))]]

\* StringDictionaryBuilder::append(value)
StringDictionaryBuilder_append(self, str, K) ==
    LET found == get(self.map, as_bytes(str)) IN
    IF is_some(found)
    THEN [result |-> Returned(unwrap(found)),
          self |-> [self EXCEPT !.keys_builder =
                        PrimitiveBuilder_append_value(@, unwrap(found), K)]]
    ELSE LET key == from_usize(self.values_builder.builder.len, K) IN
         IF ~is_some(key)
         THEN [result |-> Err("DictionaryKeyOverflowError"), self |-> self]
         ELSE [result |-> Returned(unwrap(key)),
               self |-> [self EXCEPT
                            !.values_builder = StringBuilder_append_value(@, str),
                            !.keys_builder = PrimitiveBuilder_append_value(@, unwrap(key), K),
                            !.map = insert(@, as_bytes(str), unwrap(key))]]

RECURSIVE seed_entries(_, _, _, _)
\* The loop of new_with_dictionary from entry i on: the map and the values
\* builder it leaves, or the error it stops with.
seed_entries(acc, dictionary_values, i, K) ==
    IF i >= dictionary_values.len THEN [result |-> Ok, acc |-> acc]
    ELSE IF Array_is_valid(dictionary_values, i)
    THEN LET str == StringArray_value(dictionary_values, i)
             key == from_usize(i, K) IN
         IF ~is_some(key) THEN [result |-> Err("DictionaryKeyOverflowError"), acc |-> acc]
         ELSE seed_entries([map |-> insert(acc.map, as_bytes(str), unwrap(key)),
                            values_builder |-> StringBuilder_append_value(acc.values_builder, str)],
                           dictionary_values, i + 1, K)
    ELSE seed_entries([acc EXCEPT !.values_builder = StringBuilder_append_null(@)],
                      dictionary_values, i + 1, K)

\* Mutant: the map is left empty.
StringDictionaryBuilder_new_with_dictionary_unseeded(keys_builder, dictionary_values, K) ==
    LET dict_len == dictionary_values.len
        r == seed_entries([map |-> <<>>,
                           values_builder |->
                               StringBuilder_with_capacity(dict_len,
                                                           Len(value_data(dictionary_values)))],
                          dictionary_values, 0, K)
    IN [result |-> r.result,
        self |-> [K |-> K, keys_builder |-> keys_builder,
                  values_builder |-> r.acc.values_builder, map |-> <<>>]]

\* StringDictionaryBuilder::new_with_dictionary(keys_builder, dictionary_values):
\* the Result, and the builder when it is Ok.
StringDictionaryBuilder_new_with_dictionary(keys_builder, dictionary_values, K) ==
    LET dict_len == dictionary_values.len
        r == seed_entries([map |-> <<>>,
                           values_builder |->
                               StringBuilder_with_capacity(dict_len,
                                                           Len(value_data(dictionary_values)))],
                          dictionary_values, 0, K)
    IN [result |-> r.result,
        self |-> [K |-> K, keys_builder |-> keys_builder,
                  values_builder |-> r.acc.values_builder, map |-> r.acc.map]]

\* Mutant: the map is not cleared.
StringDictionaryBuilder_finish_keeps_map(self, K) ==
    LET vf == StringBuilder_finish(self.values_builder)
        kf == PrimitiveBuilder_finish_dict(self.keys_builder, vf.array, K)
    IN [array |-> kf.array,
        self |-> [self EXCEPT !.keys_builder = kf.self, !.values_builder = vf.self]]

\* StringDictionaryBuilder::finish
StringDictionaryBuilder_finish(self, K) ==
    LET vf == StringBuilder_finish(self.values_builder)
        kf == PrimitiveBuilder_finish_dict(self.keys_builder, vf.array, K)
    IN [array |-> kf.array,
        self |-> [self EXCEPT !.keys_builder = kf.self, !.values_builder = vf.self,
                              !.map = <<>>]]

\* ---------------------------------------------------------------- FieldData

\* The value `as i8` leaves: the low 8 bits, read as signed.
as_i8(n) == ((n + 128) % 256) - 128

\* FieldData::new(type_id, data_type, bitmap_builder)
FieldData_new(type_id, data_type, bitmap_builder) ==
    [type_id |-> type_id,
     data_type |-> data_type,
     values_buffer |-> MutableBuffer_new(1),
     slots |-> 0,
     bitmap_builder |-> bitmap_builder]

\* mutable_buffer_to_builder(mutable_buffer, slots)
mutable_buffer_to_builder(mutable_buffer, slots) ==
    [buffer |-> mutable_buffer, len |-> slots]

\* builder_to_mutable_buffer(builder)
builder_to_mutable_buffer(builder) == builder.buffer

\* FieldData::append_to_values_buffer::<T>(v)
append_to_values_buffer(self, v, T) ==
    LET builder == BufferBuilder_append(
                       mutable_buffer_to_builder(self.values_buffer, self.slots), v, T)
    IN [self EXCEPT
           !.values_buffer = builder_to_mutable_buffer(builder),
           !.slots = @ + 1,
           !.bitmap_builder = IF is_some(@)
                              THEN Some(BooleanBufferBuilder_append(unwrap(@), TRUE))
                              ELSE None]

\* FieldData::append_null::<T>()
FieldData_append_null(self, T) ==
    IF is_some(self.bitmap_builder)
    THEN LET builder == BufferBuilder_advance(
                            mutable_buffer_to_builder(self.values_buffer, self.slots), 1, T)
         IN [self EXCEPT
                !.values_buffer = builder_to_mutable_buffer(builder),
                !.slots = @ + 1,
                !.bitmap_builder = Some(BooleanBufferBuilder_append(unwrap(@), FALSE))]
    ELSE self

\* FieldData::append_null_dynamic: append_null at the native type of the
\* field's recorded data type.
append_null_dynamic(self) ==
    CASE self.data_type = "Int8"  -> FieldData_append_null(self, Int8Type)
      [] self.data_type = "Int16" -> FieldData_append_null(self, Int16Type)
      [] self.data_type = "Int32" -> FieldData_append_null(self, Int32Type)
      [] self.data_type = "Int64" -> FieldData_append_null(self, Int64Type)
      [] self.data_type = "UInt8" -> FieldData_append_null(self, UInt8Type)
      [] self.data_type = "UInt32" -> FieldData_append_null(self, UInt32Type)

\* --------------------------------------------------------------- UnionBuilder
\* (`field_data.slots as i32` is the slot count itself: it stays far below 2^31.)

\* UnionBuilder::new_dense(capacity)
UnionBuilder_new_dense(capacity) ==
    [len |-> 0,
     fields |-> <<>>,
     type_id_builder |-> BufferBuilder_new(capacity, Int8Type),
     value_offset_builder |-> Some(BufferBuilder_new(capacity, Int32Type)),
     bitmap_builder |-> None]

\* UnionBuilder::new_sparse(capacity)
UnionBuilder_new_sparse(capacity) ==
    [len |-> 0,
     fields |-> <<>>,
     type_id_builder |-> BufferBuilder_new(capacity, Int8Type),
     value_offset_builder |-> None,
     bitmap_builder |-> None]

\* for (_, fd) in fields.iter_mut() { fd.append_null_dynamic()? }
null_every_field(fields) ==
    [name \in DOMAIN fields |-> append_null_dynamic(fields[name])]

RECURSIVE append_times(_, _, _)
\* for _ in 0..n { builder.append(v) }
append_times(builder, n, v) ==
    IF n = 0 THEN builder
    ELSE append_times(BooleanBufferBuilder_append(builder, v), n - 1, v)

\* Mutant: the bitmap is created without a bit for the rows before.
UnionBuilder_append_null_no_backfill(self) ==
    LET bitmap == IF is_some(self.bitmap_builder) THEN unwrap(self.bitmap_builder)
                  ELSE BooleanBufferBuilder_new(self.len + 1)
    IN [self EXCEPT
           !.bitmap_builder = Some(BooleanBufferBuilder_append(bitmap, FALSE)),
           !.type_id_builder = BufferBuilder_append(@, 0, Int8Type),
           !.fields = IF is_some(self.value_offset_builder) THEN @
                      ELSE null_every_field(@),
           !.len = @ + 1]

\* UnionBuilder::append_null
UnionBuilder_append_null(self) ==
    LET bitmap == IF is_some(self.bitmap_builder) THEN unwrap(self.bitmap_builder)
                  ELSE append_times(BooleanBufferBuilder_new(self.len + 1), self.len, TRUE)
    IN [self EXCEPT
           !.bitmap_builder = Some(BooleanBufferBuilder_append(bitmap, FALSE)),
           !.type_id_builder = BufferBuilder_append(@, 0, Int8Type),
           !.fields = IF is_some(self.value_offset_builder) THEN @
                      ELSE null_every_field(@),
           !.len = @ + 1]

RECURSIVE backfill_nulls(_, _, _)
\* for _ in 0..len { fd.append_null::<T>()? }
backfill_nulls(fd, n, T) ==
    IF n = 0 THEN fd ELSE backfill_nulls(FieldData_append_null(fd, T), n - 1, T)

\* Mutant: a field first used at a later row starts with no slots.
take_field_data_no_backfill(self, type_name, T) ==
    IF type_name \in DOMAIN self.fields THEN self.fields[type_name]
    ELSE FieldData_new(as_i8(Cardinality(DOMAIN self.fields)), T.name,
                       IF is_some(self.value_offset_builder) THEN None
                       ELSE Some(BooleanBufferBuilder_new(1)))

\* The field data UnionBuilder::append works on: the registered one, or a new
\* one with the next type id (backfilled with nulls in a sparse union).
take_field_data(self, type_name, T) ==
    IF type_name \in DOMAIN self.fields THEN self.fields[type_name]
    ELSE LET type_id == as_i8(Cardinality(DOMAIN self.fields)) IN
         IF is_some(self.value_offset_builder)
         THEN FieldData_new(type_id, T.name, None)
         ELSE backfill_nulls(FieldData_new(type_id, T.name, Some(BooleanBufferBuilder_new(1))),
                             self.len, T)

\* Mutant: the value offset is the field's slot count after the append.
UnionBuilder_append_offset_after(self, type_name, v, T) ==
    LET field_data == take_field_data(self, type_name, T)
        rest == remove(self.fields, type_name)
        others == IF is_some(self.value_offset_builder) THEN rest
                  ELSE null_every_field(rest)
    IN [self EXCEPT
           !.type_id_builder = BufferBuilder_append(@, field_data.type_id, Int8Type),
           !.value_offset_builder =
               IF is_some(@)
               THEN Some(BufferBuilder_append(unwrap(@), field_data.slots + 1, Int32Type))
               ELSE None,
           !.fields = insert(others, type_name, append_to_values_buffer(field_data, v, T)),
           !.bitmap_builder = IF is_some(@)
                              THEN Some(BooleanBufferBuilder_append(unwrap(@), TRUE))
                              ELSE None,
           !.len = @ + 1]

\* UnionBuilder::append::<T>(type_name, v)
UnionBuilder_append(self, type_name, v, T) ==
    LET field_data == take_field_data(self, type_name, T)
        rest == remove(self.fields, type_name)
        others == IF is_some(self.value_offset_builder) THEN rest
                  ELSE null_every_field(rest)
    IN [self EXCEPT
           !.type_id_builder = BufferBuilder_append(@, field_data.type_id, Int8Type),
           !.value_offset_builder =
               IF is_some(@)
               THEN Some(BufferBuilder_append(unwrap(@), field_data.slots, Int32Type))
               ELSE None,
           !.fields = insert(others, type_name, append_to_values_buffer(field_data, v, T)),
           !.bitmap_builder = IF is_some(@)
                              THEN Some(BooleanBufferBuilder_append(unwrap(@), TRUE))
                              ELSE None,
           !.len = @ + 1]

\* One child of the union as build makes it, tagged with its type id.
union_child(name, fd) ==
    [type_id |-> fd.type_id,
     name |-> name,
     array |-> ArrayData_build(fd.data_type, fd.slots, <<fd.values_buffer.data>>,
                               IF is_some(fd.bitmap_builder)
                               THEN Some(BooleanBufferBuilder_finish(unwrap(fd.bitmap_builder)).buf)
                               ELSE None,
                               <<>>)]

RECURSIVE insert_sorted(_, _)
\* c placed after the last child whose type id is not greater (a stable sort).
insert_sorted(sorted, c) ==
    IF sorted = <<>> THEN <<c>>
    ELSE IF sorted[Len(sorted)].type_id <= c.type_id THEN Append(sorted, c)
    ELSE Append(insert_sorted(SubSeq(sorted, 1, Len(sorted) - 1), c), sorted[Len(sorted)])

RECURSIVE sorted_from(_, _)
sorted_from(sorted, children) ==
    IF children = <<>> THEN sorted
    ELSE sorted_from(insert_sorted(sorted, Head(children)), Tail(children))

\* Mutant: the children keep the order the map gave them.
sort_by_type_id_skipped(children) == children

\* children.sort_by(|a, b| a.0.partial_cmp(&b.0))
sort_by_type_id(children) == sorted_from(<<>>, children)

\* UnionBuilder::build, the field map iterating in `order`: the arguments
\* handed to UnionArray::try_new.
UnionBuilder_build(self, order) ==
    LET children == [i \in 1..Len(order) |-> union_child(order[i], self.fields[order[i]])]
        sorted == sort_by_type_id(children)
    IN [type_ids |-> BufferBuilder_finish(self.type_id_builder).buf,
        value_offsets |-> IF is_some(self.value_offset_builder)
                          THEN Some(BufferBuilder_finish(unwrap(self.value_offset_builder)).buf)
                          ELSE None,
        children |-> [i \in 1..Len(sorted) |-> [name |-> sorted[i].name,
                                                array |-> sorted[i].array]],
        bitmap |-> IF is_some(self.bitmap_builder)
                   THEN Some(BooleanBufferBuilder_finish(unwrap(self.bitmap_builder)).buf)
                   ELSE None]

\* ---------------------------------------------------------------- the program

PrimT == Int32Type
PrimValues == {-2, 1}

\* The slices a call may be handed: every sequence of at most MaxSlice items.
SlicesOf(S) == UNION {[1..n -> S] : n \in 0..MaxSlice}

\* The capacity hints a builder may be created with.
Capacities == {0, MaxLen}


Call(op, args) == [op |-> op, args |-> args]

\* A slot a call asked for: valid or null, and the value handed in.
Slot(valid, v) == [valid |-> valid, v |-> v]
SlotsOf(values, is_valid) == [i \in 1..Len(values) |-> Slot(is_valid[i], values[i])]
AllValid(values) == [i \in 1..Len(values) |-> Slot(TRUE, values[i])]
HasNull(slots) == \E i \in 1..Len(slots) : ~slots[i].valid

\* The program has constructed builder t and called nothing yet.
Start(t) ==
    /\ target = t
    /\ call = Call("new", <<>>) /\ ret = Ok
    /\ hist = <<>> /\ done = None /\ nulled = FALSE

pbFresh == pb = PrimitiveBuilder_new(0, PrimT)
bbFresh == bb = BooleanBuilder_new(0)
fslFresh == fsl = FixedSizeListBuilder_new(PrimitiveBuilder_new(0, UInt8Type), 0)
ubFresh == ub = None
dbFresh == db = None
bufFresh == buf = [T |-> UInt8Type, builder |-> BufferBuilder_new(0, UInt8Type)]
bitsFresh == bits = BooleanBufferBuilder_new(0)
lbFresh == lb = None
fsbFresh == fsb = None
sbFresh == sb = None
seededFresh == seeded = None
\* The builders of the programs that follow the dictionary programs.
othersFresh == bufFresh /\ bitsFresh /\ lbFresh /\ fsbFresh /\ sbFresh /\ seededFresh

\* --------------------------------------------- program: PrimitiveBuilder<Int32>

others_pb == <<target, seeded, bb, fsl, ub, db, buf, bits, lb, fsb, sb>>

InitPrim ==
    /\ Start("Primitive")
    /\ \E c \in Capacities : pb = PrimitiveBuilder_new(c, PrimT)
    /\ twin = Some(pb)
    /\ bbFresh /\ fslFresh /\ ubFresh /\ dbFresh /\ othersFresh

\* The bookkeeping of a call that appended `slots` and returned Ok.
Appended(op, args, slots) ==
    /\ call' = Call(op, args) /\ ret' = Ok
    /\ hist' = hist \o slots
    /\ done' = None
    /\ nulled' = (nulled \/ HasNull(slots))

PrimAppendValue ==
    /\ target = "Primitive" /\ Len(hist) < MaxLen
    /\ \E v \in PrimValues :
        /\ pb' = PrimitiveBuilder_append_value(pb, v, PrimT)
        /\ twin' = Some(PrimitiveBuilder_append_value(unwrap(twin), v, PrimT))
        /\ Appended("append_value", <<>>, <<Slot(TRUE, v)>>)
    /\ UNCHANGED others_pb

PrimAppendNull ==
    /\ target = "Primitive" /\ Len(hist) < MaxLen
    /\ pb' = PrimitiveBuilder_append_null(pb, PrimT)
    /\ twin' = Some(PrimitiveBuilder_append_null(unwrap(twin), PrimT))
    /\ Appended("append_null", <<>>, <<Slot(FALSE, 0)>>)
    /\ UNCHANGED others_pb

PrimAppendOption ==
    /\ target = "Primitive" /\ Len(hist) < MaxLen
    /\ \E v \in {None} \cup {Some(x) : x \in PrimValues} :
        /\ pb' = PrimitiveBuilder_append_option(pb, v, PrimT)
        /\ twin' = Some(PrimitiveBuilder_append_option(unwrap(twin), v, PrimT))
        /\ Appended("append_option", <<>>,
                    <<IF is_some(v) THEN Slot(TRUE, unwrap(v)) ELSE Slot(FALSE, 0)>>)
    /\ UNCHANGED others_pb

PrimAppendSlice ==
    /\ target = "Primitive"
    /\ \E v \in SlicesOf(PrimValues) :
        /\ Len(hist) + Len(v) <= MaxLen
        /\ pb' = PrimitiveBuilder_append_slice(pb, v, PrimT)
        /\ twin' = Some(PrimitiveBuilder_append_slice(unwrap(twin), v, PrimT))
        /\ Appended("append_slice", <<Len(v)>>, AllValid(v))
    /\ UNCHANGED others_pb

PrimAppendValues ==
    /\ target = "Primitive"
    /\ \E values \in SlicesOf(PrimValues), is_valid \in SlicesOf(BOOLEAN) :
        /\ Len(hist) + Len(values) <= MaxLen
        /\ LET r == PrimitiveBuilder_append_values(pb, values, is_valid, PrimT) IN
            /\ pb' = r.self
            /\ twin' = Some(PrimitiveBuilder_append_values(unwrap(twin), values, is_valid,
                                                          PrimT).self)
            /\ IF r.result = "Ok"
               THEN Appended("append_values", <<Len(values), Len(is_valid)>>,
                             SlotsOf(values, is_valid))
               ELSE /\ call' = Call("append_values", <<Len(values), Len(is_valid)>>)
                    /\ ret' = Err(r.result)
                    /\ done' = None
                    /\ UNCHANGED <<hist, nulled>>
    /\ UNCHANGED others_pb

PrimFinish ==
    /\ target = "Primitive"
    /\ LET r == PrimitiveBuilder_finish(pb, PrimT) IN
        /\ pb' = r.self
        /\ ret' = Returned(r.array)
    /\ \E c \in Capacities : twin' = Some(PrimitiveBuilder_new(c, PrimT))
    /\ call' = Call("finish", <<>>)
    /\ done' = Some(hist)
    /\ hist' = <<>>
    /\ UNCHANGED nulled
    /\ UNCHANGED others_pb

NextPrim ==
    \/ PrimAppendValue \/ PrimAppendNull \/ PrimAppendOption
    \/ PrimAppendSlice \/ PrimAppendValues \/ PrimFinish

SpecPrim == InitPrim /\ [][NextPrim]_vars

\* ------------------------------------------------------ program: BooleanBuilder

others_bb == <<target, seeded, pb, fsl, ub, db, buf, bits, lb, fsb, sb>>

InitBool ==
    /\ Start("Boolean")
    /\ \E c \in Capacities : bb = BooleanBuilder_new(c)
    /\ twin = Some(bb)
    /\ pbFresh /\ fslFresh /\ ubFresh /\ dbFresh /\ othersFresh

BoolAppendValue ==
    /\ target = "Boolean" /\ Len(hist) < MaxLen
    /\ \E v \in BOOLEAN :
        /\ bb' = BooleanBuilder_append_value(bb, v)
        /\ twin' = Some(BooleanBuilder_append_value(unwrap(twin), v))
        /\ Appended("append_value", <<>>, <<Slot(TRUE, v)>>)
    /\ UNCHANGED others_bb

BoolAppendNull ==
    /\ target = "Boolean" /\ Len(hist) < MaxLen
    /\ bb' = BooleanBuilder_append_null(bb)
    /\ twin' = Some(BooleanBuilder_append_null(unwrap(twin)))
    /\ Appended("append_null", <<>>, <<Slot(FALSE, FALSE)>>)
    /\ UNCHANGED others_bb

BoolAppendOption ==
    /\ target = "Boolean" /\ Len(hist) < MaxLen
    /\ \E v \in {None} \cup {Some(x) : x \in BOOLEAN} :
        /\ bb' = BooleanBuilder_append_option(bb, v)
        /\ twin' = Some(BooleanBuilder_append_option(unwrap(twin), v))
        /\ Appended("append_option", <<>>,
                    <<IF is_some(v) THEN Slot(TRUE, unwrap(v)) ELSE Slot(FALSE, FALSE)>>)
    /\ UNCHANGED others_bb

BoolAppendSlice ==
    /\ target = "Boolean"
    /\ \E v \in SlicesOf(BOOLEAN) :
        /\ Len(hist) + Len(v) <= MaxLen
        /\ bb' = BooleanBuilder_append_slice(bb, v)
        /\ twin' = Some(BooleanBuilder_append_slice(unwrap(twin), v))
        /\ Appended("append_slice", <<Len(v)>>, AllValid(v))
    /\ UNCHANGED others_bb

BoolAppendValues ==
    /\ target = "Boolean"
    /\ \E values \in SlicesOf(BOOLEAN), is_valid \in SlicesOf(BOOLEAN) :
        /\ Len(hist) + Len(values) <= MaxLen
        /\ LET r == BooleanBuilder_append_values(bb, values, is_valid) IN
            /\ bb' = r.self
            /\ twin' = Some(BooleanBuilder_append_values(unwrap(twin), values, is_valid).self)
            /\ IF r.result = "Ok"
               THEN Appended("append_values", <<Len(values), Len(is_valid)>>,
                             SlotsOf(values, is_valid))
               ELSE /\ call' = Call("append_values", <<Len(values), Len(is_valid)>>)
                    /\ ret' = Err(r.result)
                    /\ done' = None
                    /\ UNCHANGED <<hist, nulled>>
    /\ UNCHANGED others_bb

BoolFinish ==
    /\ target = "Boolean"
    /\ LET r == BooleanBuilder_finish(bb) IN
        /\ bb' = r.self
        /\ ret' = Returned(r.array)
    /\ \E c \in Capacities : twin' = Some(BooleanBuilder_new(c))
    /\ call' = Call("finish", <<>>)
    /\ done' = Some(hist)
    /\ hist' = <<>>
    /\ UNCHANGED nulled
    /\ UNCHANGED others_bb

NextBool ==
    \/ BoolAppendValue \/ BoolAppendNull \/ BoolAppendOption
    \/ BoolAppendSlice \/ BoolAppendValues \/ BoolFinish

SpecBool == InitBool /\ [][NextBool]_vars

\* A program that builds one scalar array, primitive or boolean.
InitScalar == InitPrim \/ InitBool
NextScalar == NextPrim \/ NextBool
SpecScalar == InitScalar /\ [][NextScalar]_vars

\* ----------------------------- program: FixedSizeListBuilder<UInt8Builder>

others_fsl == <<target, seeded, pb, bb, ub, db, buf, bits, lb, fsb, sb, hist, nulled>>

InitFsl ==
    /\ Start("FixedSizeList")
    /\ \E length \in 1..MaxStride :
        fsl = FixedSizeListBuilder_new(PrimitiveBuilder_new(0, UInt8Type), length)
    /\ twin = Some(fsl)
    /\ pbFresh /\ bbFresh /\ ubFresh /\ dbFresh /\ othersFresh

\* The program stops at a panic.
FslRunning == target = "FixedSizeList" /\ ret.status # "panic"

\* builder.values().append_value(v)
FslValuesAppendValue ==
    /\ FslRunning /\ PrimitiveBuilder_len(fsl.values_builder) < MaxValuesLen
    /\ \E v \in {0, 200} :
        /\ fsl' = [fsl EXCEPT !.values_builder = PrimitiveBuilder_append_value(@, v, UInt8Type)]
        /\ twin' = Some([unwrap(twin) EXCEPT
                            !.values_builder = PrimitiveBuilder_append_value(@, v, UInt8Type)])
    /\ call' = Call("values.append_value", <<>>) /\ ret' = Ok /\ done' = None
    /\ UNCHANGED others_fsl

\* builder.values().append_null()
FslValuesAppendNull ==
    /\ FslRunning /\ PrimitiveBuilder_len(fsl.values_builder) < MaxValuesLen
    /\ fsl' = [fsl EXCEPT !.values_builder = PrimitiveBuilder_append_null(@, UInt8Type)]
    /\ twin' = Some([unwrap(twin) EXCEPT
                        !.values_builder = PrimitiveBuilder_append_null(@, UInt8Type)])
    /\ call' = Call("values.append_null", <<>>) /\ ret' = Ok /\ done' = None
    /\ UNCHANGED others_fsl

FslAppend ==
    /\ FslRunning /\ fsl.len < MaxListLen
    /\ \E is_valid \in BOOLEAN :
        /\ fsl' = FixedSizeListBuilder_append(fsl, is_valid)
        /\ twin' = Some(FixedSizeListBuilder_append(unwrap(twin), is_valid))
    /\ call' = Call("append", <<>>) /\ ret' = Ok /\ done' = None
    /\ UNCHANGED others_fsl

\* finish; done keeps the lengths the call found.
FslFinish ==
    /\ FslRunning
    /\ LET r == FixedSizeListBuilder_finish(fsl) IN
        /\ fsl' = r.self
        /\ ret' = IF r.panicked THEN Panic ELSE Returned(unwrap(r.array))
    /\ twin' = Some(FixedSizeListBuilder_new(PrimitiveBuilder_new(0, UInt8Type), fsl.list_len))
    /\ call' = Call("finish", <<>>)
    /\ done' = Some([len |-> fsl.len, values_len |-> PrimitiveBuilder_len(fsl.values_builder)])
    /\ UNCHANGED others_fsl

NextFsl == FslValuesAppendValue \/ FslValuesAppendNull \/ FslAppend \/ FslFinish

SpecFsl == InitFsl /\ [][NextFsl]_vars

\* -------------------------------------------------------- program: UnionBuilder

others_ub == <<target, seeded, pb, bb, fsl, db, buf, bits, lb, fsb, sb, twin, nulled>>

UnionNames == {"a", "b", "c"}
UnionTypes == {Int32Type, Int64Type}
UnionValues == {-2}

InitUnion ==
    /\ Start("Union")
    /\ \/ ub = Some(UnionBuilder_new_dense(MaxUnionLen))
       \/ ub = Some(UnionBuilder_new_sparse(MaxUnionLen))
    /\ twin = None
    /\ pbFresh /\ bbFresh /\ fslFresh /\ dbFresh /\ othersFresh

\* The builder, until build consumes it.
UB == unwrap(ub)
IsDense == is_some(UB.value_offset_builder)

\* Every order a map with these keys may iterate in.
Orders(S) ==
    {o \in [1..Cardinality(S) -> S] : \A i, j \in DOMAIN o : i # j => o[i] # o[j]}

UnionAppendNull ==
    /\ target = "Union" /\ is_some(ub) /\ UB.len < MaxUnionLen
    /\ ub' = Some(UnionBuilder_append_null(UB))
    /\ call' = Call("append_null", <<>>) /\ ret' = Ok
    /\ hist' = Append(hist, [kind |-> "append_null"])
    /\ done' = None
    /\ UNCHANGED others_ub

UnionAppend ==
    /\ target = "Union" /\ is_some(ub) /\ UB.len < MaxUnionLen
    /\ \E type_name \in UnionNames, T \in UnionTypes, v \in UnionValues :
        /\ ub' = Some(UnionBuilder_append(UB, type_name, v, T))
        /\ hist' = Append(hist, [kind |-> "append", name |-> type_name, T |-> T, v |-> v])
    /\ call' = Call("append", <<>>) /\ ret' = Ok
    /\ done' = None
    /\ UNCHANGED others_ub

\* build consumes the builder; done keeps it for the claims to read.
UnionBuild ==
    /\ target = "Union" /\ is_some(ub)
    /\ \E order \in Orders(DOMAIN UB.fields) :
        /\ ret' = Returned(UnionBuilder_build(UB, order))
        /\ call' = Call("build", order)
    /\ done' = ub
    /\ ub' = None
    /\ UNCHANGED hist
    /\ UNCHANGED others_ub

NextUnion == UnionAppendNull \/ UnionAppend \/ UnionBuild

SpecUnion == InitUnion /\ [][NextUnion]_vars

\* ------------------------------------------------ program: dictionary builders

others_db == <<target, pb, bb, fsl, ub, buf, bits, lb, fsb, sb, nulled>>

DictTargets == {"PrimitiveDictionary", "StringDictionary"}
DictV == UInt32Type
DictValues == {12, 300, 70000}
\* "a", "é" and the empty string, as code points.
DictStrings == {<<97>>, <<233>>, <<>>}

\* The builder and its key type.
DB == unwrap(db)

\* A builder over empty keys and values builders.
NewDictionary(t, K, capacity) ==
    DictionaryBuilder_new(PrimitiveBuilder_new(capacity, K),
                          IF t = "PrimitiveDictionary"
                          THEN PrimitiveBuilder_new(capacity, DictV)
                          ELSE StringBuilder_new(capacity),
                          K)

InitDict ==
    /\ \/ Start("PrimitiveDictionary") /\ db = Some(NewDictionary(target, UInt8Type, MaxDictLen))
       \/ Start("StringDictionary") /\ db = Some(NewDictionary(target, Int8Type, MaxDictLen))
    /\ twin = db
    /\ pbFresh /\ bbFresh /\ fslFresh /\ ubFresh /\ othersFresh

\* The bookkeeping of an append of the value with these bytes that returned r.
DictAppended(bytes, r) ==
    /\ db' = Some(r.self)
    /\ call' = Call("append", <<bytes>>)
    /\ ret' = r.result
    /\ hist' = Append(hist, [null |-> FALSE, bytes |-> bytes, result |-> r.result])
    /\ done' = None
    /\ UNCHANGED <<seeded, others_db>>

DictAppend ==
    /\ target = "PrimitiveDictionary" /\ Len(hist) < MaxDictLen
    /\ \E v \in DictValues :
        /\ DictAppended(to_byte_slice(v, DictV),
                        PrimitiveDictionaryBuilder_append(DB, v, DB.K, DictV))
        /\ twin' = Some(PrimitiveDictionaryBuilder_append(unwrap(twin), v, DB.K, DictV).self)

StrDictAppend ==
    /\ target = "StringDictionary" /\ Len(hist) < MaxDictLen
    /\ \E str \in DictStrings :
        /\ DictAppended(as_bytes(str), StringDictionaryBuilder_append(DB, str, DB.K))
        /\ twin' = Some(StringDictionaryBuilder_append(unwrap(twin), str, DB.K).self)

DictAppendNull ==
    /\ target \in DictTargets /\ Len(hist) < MaxDictLen
    /\ db' = Some(DictionaryBuilder_append_null(DB, DB.K))
    /\ twin' = Some(DictionaryBuilder_append_null(unwrap(twin), DB.K))
    /\ call' = Call("append_null", <<>>) /\ ret' = Ok
    /\ hist' = Append(hist, [null |-> TRUE])
    /\ done' = None
    /\ UNCHANGED <<seeded, others_db>>

DictFinish ==
    /\ target \in DictTargets
    /\ LET r == IF target = "PrimitiveDictionary"
                THEN PrimitiveDictionaryBuilder_finish(DB, DB.K, DictV)
                ELSE StringDictionaryBuilder_finish(DB, DB.K) IN
        /\ db' = Some(r.self)
        /\ ret' = Returned(r.array)
    /\ \E c \in {0, MaxDictLen} : twin' = Some(NewDictionary(target, DB.K, c))
    /\ call' = Call("finish", <<>>)
    /\ done' = Some(hist)
    /\ hist' = <<>>
    /\ seeded' = None
    /\ UNCHANGED others_db

NextDict == DictAppend \/ StrDictAppend \/ DictAppendNull \/ DictFinish

SpecDict == InitDict /\ [][NextDict]_vars

\* A program that uses one PrimitiveBuilder: its own, or the keys builder of
\* a dictionary builder (finished by finish_dict).
InitPrimOrKeys == InitPrim \/ InitDict
NextPrimOrKeys == NextPrim \/ NextDict
SpecPrimOrKeys == InitPrimOrKeys /\ [][NextPrimOrKeys]_vars

\* ------------------- program: StringDictionaryBuilder over a given dictionary

\* The dictionaries handed to new_with_dictionary: every array of at most
\* MaxSeedLen strings and nulls.
Dictionaries ==
    {StringArray_from(v) :
        v \in UNION {[1..n -> {None} \cup {Some(str) : str \in DictStrings}] : n \in 0..MaxSeedLen}}

InitSeeded ==
    /\ Start("StringDictionary")
    /\ \E dictionary_values \in Dictionaries :
        LET r == StringDictionaryBuilder_new_with_dictionary(
                     PrimitiveBuilder_new(MaxDictLen, Int8Type), dictionary_values, Int8Type) IN
        /\ r.result = Ok
        /\ db = Some(r.self)
        /\ seeded = Some(dictionary_values)
    /\ twin = db
    /\ pbFresh /\ bbFresh /\ fslFresh /\ ubFresh
    /\ bufFresh /\ bitsFresh /\ lbFresh /\ fsbFresh /\ sbFresh

NextSeeded == StrDictAppend \/ DictAppendNull \/ DictFinish

SpecSeeded == InitSeeded /\ [][NextSeeded]_vars

\* ------------------- program: a dictionary builder finished round after round

\* The dictionaries of the seeded builders of this program, as the tests'
\* ["abc", "def"] and [null, "abc", "def"].
RoundsDictionaries ==
    {StringArray_from(<<Some(<<233>>), Some(<<97>>)>>),
     StringArray_from(<<None, Some(<<97>>)>>)}

\* done: the map the last finish found, and whether a finish preceded it;
\* kept until the next finish.  seeded: the dictionary the builder was made
\* with, kept for the whole run.
InitDictRounds ==
    /\ \/ /\ Start("PrimitiveDictionary")
          /\ db = Some(NewDictionary(target, UInt8Type, 0)) /\ seeded = None
       \/ /\ Start("StringDictionary")
          /\ db = Some(NewDictionary(target, Int8Type, 0)) /\ seeded = None
       \/ /\ Start("StringDictionary")
          /\ \E dictionary_values \in RoundsDictionaries :
              LET r == StringDictionaryBuilder_new_with_dictionary(
                           PrimitiveBuilder_new(0, Int8Type), dictionary_values, Int8Type) IN
              /\ r.result = Ok
              /\ db = Some(r.self)
              /\ seeded = Some(dictionary_values)
    /\ twin = db
    /\ pbFresh /\ bbFresh /\ fslFresh /\ ubFresh
    /\ bufFresh /\ bitsFresh /\ lbFresh /\ fsbFresh /\ sbFresh

RoundsDictAppended(bytes, r) ==
    /\ db' = Some(r.self)
    /\ call' = Call("append", <<bytes>>)
    /\ ret' = r.result
    /\ hist' = Append(hist, [null |-> FALSE, bytes |-> bytes, result |-> r.result])
    /\ UNCHANGED <<done, seeded, twin, others_db>>

RoundsDictAppend ==
    /\ target = "PrimitiveDictionary" /\ Len(hist) < MaxRoundLen
    /\ \E v \in DictValues :
        RoundsDictAppended(to_byte_slice(v, DictV),
                           PrimitiveDictionaryBuilder_append(DB, v, DB.K, DictV))

RoundsStrDictAppend ==
    /\ target = "StringDictionary" /\ Len(hist) < MaxRoundLen
    /\ \E str \in DictStrings :
        RoundsDictAppended(as_bytes(str), StringDictionaryBuilder_append(DB, str, DB.K))

RoundsDictFinish ==
    /\ target \in DictTargets
    /\ LET r == IF target = "PrimitiveDictionary"
                THEN PrimitiveDictionaryBuilder_finish(DB, DB.K, DictV)
                ELSE StringDictionaryBuilder_finish(DB, DB.K) IN
        /\ db' = Some(r.self)
        /\ ret' = Returned(r.array)
    /\ call' = Call("finish", <<>>)
    /\ done' = Some([map |-> DB.map, again |-> done # None])
    /\ hist' = <<>>
    /\ UNCHANGED <<seeded, twin, others_db>>

NextDictRounds == RoundsDictAppend \/ RoundsStrDictAppend \/ RoundsDictFinish

SpecDictRounds == InitDictRounds /\ [][NextDictRounds]_vars

\* ----------------------- program: distinct values into a 1-byte-keyed dictionary

\* The i-th value the program appends, i from 0 (as the overflow test: i + 1000).
nth_value(i) == i + 1000
\* The i-th string the program appends: two letters, different for each i.
nth_string(i) == <<97 + ((i \div 26) % 26), 97 + (i % 26)>>

InitOverflow ==
    /\ \E t \in DictTargets, K \in {UInt8Type, Int8Type} :
        /\ Start(t)
        /\ db = Some(NewDictionary(t, K, MaxDistinct))
    /\ twin = db
    /\ pbFresh /\ bbFresh /\ fslFresh /\ ubFresh /\ othersFresh

DictAppendDistinct ==
    /\ target = "PrimitiveDictionary" /\ Len(hist) < MaxDistinct
    /\ LET v == nth_value(Len(hist)) IN
        DictAppended(to_byte_slice(v, DictV),
                     PrimitiveDictionaryBuilder_append(DB, v, DB.K, DictV))
    /\ UNCHANGED twin

StrDictAppendDistinct ==
    /\ target = "StringDictionary" /\ Len(hist) < MaxDistinct
    /\ LET str == nth_string(Len(hist)) IN
        DictAppended(as_bytes(str), StringDictionaryBuilder_append(DB, str, DB.K))
    /\ UNCHANGED twin

\* After an append failed, the first value of the round is appended again
\* (once in a round).
DictAppendSeen ==
    /\ target \in DictTargets /\ Len(hist) <= MaxDistinct
    /\ ret.status = "DictionaryKeyOverflowError"
    /\ \A i \in 2..Len(hist) : hist[i].bytes # hist[1].bytes
    /\ IF target = "PrimitiveDictionary"
       THEN DictAppended(to_byte_slice(nth_value(0), DictV),
                         PrimitiveDictionaryBuilder_append(DB, nth_value(0), DB.K, DictV))
       ELSE DictAppended(as_bytes(nth_string(0)),
                         StringDictionaryBuilder_append(DB, nth_string(0), DB.K))
    /\ UNCHANGED twin

NextOverflow == DictAppendDistinct \/ StrDictAppendDistinct \/ DictAppendSeen

SpecDictOverflow == InitOverflow /\ [][NextOverflow]_vars

\* ------------------------ program: a dense UnionBuilder over many field names

UnionTargets == {"Union", "UnionMany"}

InitUnionMany ==
    /\ Start("UnionMany")
    /\ \E c \in Capacities : ub = Some(UnionBuilder_new_dense(c))
    /\ twin = None
    /\ pbFresh /\ bbFresh /\ fslFresh /\ dbFresh /\ othersFresh

\* builder.append::<Int8Type>(name, 1), the name one not used before: the
\* i-th call uses nth_string(i).
UnionAppendNewField ==
    /\ target = "UnionMany" /\ is_some(ub) /\ UB.len < MaxFieldCount
    /\ LET type_name == nth_string(UB.len) IN
        /\ ub' = Some(UnionBuilder_append(UB, type_name, 1, Int8Type))
        /\ hist' = Append(hist, [kind |-> "append", name |-> type_name, T |-> Int8Type, v |-> 1])
    /\ call' = Call("append", <<>>) /\ ret' = Ok
    /\ done' = None
    /\ UNCHANGED others_ub

NextUnionMany == UnionAppendNewField

SpecUnionMany == InitUnionMany /\ [][NextUnionMany]_vars

\* ------------------------------------------------- program: BufferBuilder<T>

others_buf == <<target, seeded, pb, bb, fsl, ub, db, bits, lb, fsb, sb, twin, nulled>>

BufTypes == {UInt8Type, Int32Type}
\* The elements the program appends to a BufferBuilder<T>.
ValuesOf(T) == IF T = UInt8Type THEN {7, 200} ELSE {-2, 300}
\* The counts handed to append_n and advance, and to reserve.
Counts == 0..MaxSlice
Reserves == {1, 65}

\* buf: the program's BufferBuilder<T> and its T.
InitBuf ==
    /\ Start("Buffer")
    /\ \E T \in BufTypes, c \in Capacities :
        buf = [T |-> T, builder |-> BufferBuilder_new(c, T)]
    /\ twin = None
    /\ pbFresh /\ bbFresh /\ fslFresh /\ ubFresh /\ dbFresh
    /\ bitsFresh /\ lbFresh /\ fsbFresh /\ sbFresh /\ seededFresh

\* The bookkeeping of a call that left builder b and asked for `elements`.
BufCalled(op, args, b, elements) ==
    /\ buf' = [buf EXCEPT !.builder = b]
    /\ call' = Call(op, args) /\ ret' = Ok
    /\ hist' = hist \o elements
    /\ done' = None
    /\ UNCHANGED others_buf

BufAppend ==
    /\ target = "Buffer" /\ Len(hist) < MaxBufLen
    /\ \E v \in ValuesOf(buf.T) :
        BufCalled("append", <<v>>, BufferBuilder_append(buf.builder, v, buf.T), <<v>>)

BufAppendN ==
    /\ target = "Buffer"
    /\ \E n \in Counts, v \in ValuesOf(buf.T) :
        /\ Len(hist) + n <= MaxBufLen
        /\ BufCalled("append_n", <<n, v>>, BufferBuilder_append_n(buf.builder, n, v, buf.T),
                     [i \in 1..n |-> v])

BufAppendSlice ==
    /\ target = "Buffer"
    /\ \E slice \in SlicesOf(ValuesOf(buf.T)) :
        /\ Len(hist) + Len(slice) <= MaxBufLen
        /\ BufCalled("append_slice", <<slice>>,
                     BufferBuilder_append_slice(buf.builder, slice, buf.T), slice)

BufAdvance ==
    /\ target = "Buffer"
    /\ \E i \in Counts :
        /\ Len(hist) + i <= MaxBufLen
        /\ BufCalled("advance", <<i>>, BufferBuilder_advance(buf.builder, i, buf.T), zeros(i))

BufReserve ==
    /\ target = "Buffer"
    /\ \E n \in Reserves :
        BufCalled("reserve", <<n>>, BufferBuilder_reserve(buf.builder, n, buf.T), <<>>)

BufFinish ==
    /\ target = "Buffer"
    /\ LET r == BufferBuilder_finish(buf.builder) IN
        /\ buf' = [buf EXCEPT !.builder = r.self]
        /\ ret' = Returned(r.buf)
    /\ call' = Call("finish", <<>>)
    /\ done' = Some(hist)
    /\ hist' = <<>>
    /\ UNCHANGED others_buf

NextBuf ==
    \/ BufAppend \/ BufAppendN \/ BufAppendSlice \/ BufAdvance \/ BufReserve \/ BufFinish

SpecBuf == InitBuf /\ [][NextBuf]_vars

\* ------------------------------------------- program: BooleanBufferBuilder

others_bits == <<target, seeded, pb, bb, fsl, ub, db, buf, lb, fsb, sb, twin, nulled>>

\* The capacity hints (in bits) a BooleanBufferBuilder is created with.
BitCapacities == {0, 4, 16}
\* The counts handed to append_n and advance.
BitCounts == {0, 1, 2, 9}

InitBits ==
    /\ Start("Bits")
    /\ \E c \in BitCapacities : bits = BooleanBufferBuilder_new(c)
    /\ twin = None
    /\ pbFresh /\ bbFresh /\ fslFresh /\ ubFresh /\ dbFresh
    /\ bufFresh /\ lbFresh /\ fsbFresh /\ sbFresh /\ seededFresh

\* The bookkeeping of a call that left builder b and asked for these bits.
BitsCalled(op, args, b, asked) ==
    /\ bits' = b
    /\ call' = Call(op, args) /\ ret' = Ok
    /\ hist' = hist \o asked
    /\ done' = None
    /\ UNCHANGED others_bits

BitsAppend ==
    /\ target = "Bits" /\ Len(hist) < MaxBits
    /\ \E v \in BOOLEAN :
        BitsCalled("append", <<v>>, BooleanBufferBuilder_append(bits, v), <<v>>)

BitsAppendN ==
    /\ target = "Bits"
    /\ \E n \in BitCounts, v \in BOOLEAN :
        /\ Len(hist) + n <= MaxBits
        /\ BitsCalled("append_n", <<n, v>>, BooleanBufferBuilder_append_n(bits, n, v),
                      [i \in 1..n |-> v])

BitsAppendSlice ==
    /\ target = "Bits"
    /\ \E slice \in SlicesOf(BOOLEAN) :
        /\ Len(hist) + Len(slice) <= MaxBits
        /\ BitsCalled("append_slice", <<slice>>,
                      BooleanBufferBuilder_append_slice(bits, slice), slice)

BitsAdvance ==
    /\ target = "Bits"
    /\ \E n \in BitCounts :
        /\ Len(hist) + n <= MaxBits
        /\ BitsCalled("advance", <<n>>, BooleanBufferBuilder_advance(bits, n),
                      [i \in 1..n |-> FALSE])

BitsFinish ==
    /\ target = "Bits"
    /\ LET r == BooleanBufferBuilder_finish(bits) IN
        /\ bits' = r.self
        /\ ret' = Returned(r.buf)
    /\ call' = Call("finish", <<>>)
    /\ done' = Some(hist)
    /\ hist' = <<>>
    /\ UNCHANGED others_bits

NextBits == BitsAppend \/ BitsAppendN \/ BitsAppendSlice \/ BitsAdvance \/ BitsFinish

SpecBits == InitBits /\ [][NextBits]_vars

\* ----------------- program: ListBuilder, LargeListBuilder, BinaryBuilder, StringBuilder

others_lb == <<target, seeded, pb, bb, fsl, ub, db, buf, bits, fsb, sb, nulled>>

ListTargets == {"List", "LargeList"}
BytesTargets == {"Binary", "String"}
\* The bytes appended to a child builder.
ByteValues == {0, 200}

\* lb: the program's builder and its offset type.  The builder of the list
\* programs is over an empty UInt8Builder child.
LB == unwrap(lb)

\* A newly created builder of kind t.
NewList(t, capacity) ==
    CASE t = "List" ->
            [OffsetSize |-> Int32Type,
             builder |-> GenericListBuilder_with_capacity(PrimitiveBuilder_new(0, UInt8Type),
                                                          capacity, Int32Type)]
      [] t = "LargeList" ->
            [OffsetSize |-> Int64Type,
             builder |-> GenericListBuilder_with_capacity(PrimitiveBuilder_new(0, UInt8Type),
                                                          capacity, Int64Type)]
      [] t = "Binary" -> [OffsetSize |-> Int32Type, builder |-> BinaryBuilder_new(capacity)]
      [] t = "String" -> [OffsetSize |-> Int32Type, builder |-> StringBuilder_new(capacity)]

\* The GenericListBuilder of a builder of the program.
ListOf(b) == IF target \in ListTargets THEN b.builder ELSE b.builder.builder
Inner == ListOf(LB)

InitList ==
    /\ \E t \in ListTargets \cup BytesTargets : Start(t)
    /\ \E c \in Capacities : lb = Some(NewList(target, c))
    /\ twin = lb
    /\ pbFresh /\ bbFresh /\ fslFresh /\ ubFresh /\ dbFresh
    /\ bufFresh /\ bitsFresh /\ fsbFresh /\ sbFresh /\ seededFresh

\* The bookkeeping of a call that applied f to the builder: what it appended
\* to the child (n elements) and to the list (slots).
ListCalled(op, args, f(_), events) ==
    /\ lb' = Some([LB EXCEPT !.builder = f(@)])
    /\ twin' = Some([unwrap(twin) EXCEPT !.builder = f(@)])
    /\ call' = Call(op, args) /\ ret' = Ok
    /\ hist' = hist \o events
    /\ done' = None
    /\ UNCHANGED others_lb

ChildEvent(n) == [slot |-> FALSE, n |-> n]
SlotEvent(is_valid) == [slot |-> TRUE, is_valid |-> is_valid]

ChildRoom(n) == PrimitiveBuilder_len(Inner.values_builder) + n <= MaxChildLen
SlotRoom == Inner.len < MaxListLen

\* builder.values().append_value(v)
ListValuesAppendValue ==
    /\ target \in ListTargets /\ ChildRoom(1)
    /\ \E v \in ByteValues :
        ListCalled("values.append_value", <<v>>,
                   LAMBDA b : [b EXCEPT !.values_builder =
                                   PrimitiveBuilder_append_value(@, v, UInt8Type)],
                   <<ChildEvent(1)>>)

\* append(is_valid) of any of the four builders
ListAppend ==
    /\ target \in ListTargets \cup BytesTargets /\ SlotRoom
    /\ \E is_valid \in BOOLEAN :
        ListCalled("append", <<is_valid>>,
                   LAMBDA b : CASE target \in ListTargets ->
                                     GenericListBuilder_append(b, is_valid, LB.OffsetSize)
                                [] target = "Binary" -> BinaryBuilder_append(b, is_valid)
                                [] target = "String" -> StringBuilder_append(b, is_valid),
                   <<SlotEvent(is_valid)>>)

BinaryAppendByte ==
    /\ target = "Binary" /\ ChildRoom(1)
    /\ \E v \in ByteValues :
        ListCalled("append_byte", <<v>>, LAMBDA b : BinaryBuilder_append_byte(b, v),
                   <<ChildEvent(1)>>)

BinaryAppendValue ==
    /\ target = "Binary" /\ SlotRoom
    /\ \E bytes \in SlicesOf(ByteValues) :
        /\ ChildRoom(Len(bytes))
        /\ ListCalled("append_value", <<bytes>>, LAMBDA b : BinaryBuilder_append_value(b, bytes),
                      <<ChildEvent(Len(bytes)), SlotEvent(TRUE)>>)

StringAppendValue ==
    /\ target = "String" /\ SlotRoom
    /\ \E str \in DictStrings :
        /\ ChildRoom(Len(as_bytes(str)))
        /\ ListCalled("append_value", <<str>>, LAMBDA b : StringBuilder_append_value(b, str),
                      <<ChildEvent(Len(as_bytes(str))), SlotEvent(TRUE)>>)

BytesAppendNull ==
    /\ target \in BytesTargets /\ SlotRoom
    /\ ListCalled("append_null", <<>>,
                  LAMBDA b : IF target = "Binary" THEN BinaryBuilder_append_null(b)
                             ELSE StringBuilder_append_null(b),
                  <<SlotEvent(FALSE)>>)

\* finish of a builder of kind t
FinishList(t, b) ==
    CASE t \in ListTargets -> GenericListBuilder_finish(b.builder, b.OffsetSize)
      [] t = "Binary" -> BinaryBuilder_finish(b.builder)
      [] t = "String" -> StringBuilder_finish(b.builder)

ListFinish ==
    /\ target \in ListTargets \cup BytesTargets
    /\ LET r == FinishList(target, LB) IN
        /\ lb' = Some([LB EXCEPT !.builder = r.self])
        /\ ret' = Returned(r.array)
    /\ \E c \in Capacities : twin' = Some(NewList(target, c))
    /\ call' = Call("finish", <<>>)
    /\ done' = Some(hist)
    /\ hist' = <<>>
    /\ UNCHANGED others_lb

NextList ==
    \/ ListValuesAppendValue \/ ListAppend \/ BinaryAppendByte \/ BinaryAppendValue
    \/ StringAppendValue \/ BytesAppendNull \/ ListFinish

SpecList == InitList /\ [][NextList]_vars

\* ------------------------ program: a ListBuilder finished round after round

\* done: the length the child builder had reached when the last round was
\* finished, and the same of the round before it; kept until the next finish.
InitRounds ==
    /\ \E t \in ListTargets : Start(t)
    /\ \E c \in Capacities : lb = Some(NewList(target, c))
    /\ twin = lb
    /\ pbFresh /\ bbFresh /\ fslFresh /\ ubFresh /\ dbFresh
    /\ bufFresh /\ bitsFresh /\ fsbFresh /\ sbFresh /\ seededFresh

RoundsCalled(op, args, f(_), e) ==
    /\ lb' = Some([LB EXCEPT !.builder = f(@)])
    /\ twin' = Some([unwrap(twin) EXCEPT !.builder = f(@)])
    /\ call' = Call(op, args) /\ ret' = Ok
    /\ hist' = Append(hist, e)
    /\ UNCHANGED <<done, others_lb>>

\* builder.values().append_value(1)
RoundsValuesAppendValue ==
    /\ target \in ListTargets /\ ChildRoom(1)
    /\ RoundsCalled("values.append_value", <<1>>,
                    LAMBDA b : [b EXCEPT !.values_builder =
                                    PrimitiveBuilder_append_value(@, 1, UInt8Type)],
                    ChildEvent(1))

\* builder.append(is_valid)
RoundsAppend ==
    /\ target \in ListTargets /\ SlotRoom
    /\ \E is_valid \in BOOLEAN :
        RoundsCalled("append", <<is_valid>>,
                     LAMBDA b : GenericListBuilder_append(b, is_valid, LB.OffsetSize),
                     SlotEvent(is_valid))

\* builder.finish()
RoundsFinish ==
    /\ target \in ListTargets
    /\ LET r == GenericListBuilder_finish(LB.builder, LB.OffsetSize) IN
        /\ lb' = Some([LB EXCEPT !.builder = r.self])
        /\ ret' = Returned(r.array)
    /\ \E c \in Capacities : twin' = Some(NewList(target, c))
    /\ call' = Call("finish", <<>>)
    /\ done' = Some([child_len |-> PrimitiveBuilder_len(Inner.values_builder),
                     before |-> IF done = None THEN None ELSE Some(unwrap(done).child_len)])
    /\ hist' = <<>>
    /\ UNCHANGED others_lb

NextRounds == RoundsValuesAppendValue \/ RoundsAppend \/ RoundsFinish

SpecRounds == InitRounds /\ [][NextRounds]_vars

\* ------------------------------ program: FixedSizeBinaryBuilder, DecimalBuilder

others_fsb == <<target, seeded, pb, bb, fsl, ub, db, buf, bits, lb, sb, nulled>>

FSB == unwrap(fsb)
DecimalValues == {-2, 300}

\* The precision and scale of the decimal builders.
DecimalTypes == {<<23, 6>>, <<5, 0>>}

\* A newly created builder of kind t: a FixedSizeBinaryBuilder of this width,
\* or a DecimalBuilder of this precision and scale.
NewFixed(t, capacity, byte_width, decimal) ==
    IF t = "FixedSizeBinary" THEN FixedSizeBinaryBuilder_new(capacity, byte_width)
    ELSE DecimalBuilder_new(capacity, decimal[1], decimal[2])

InitFsb ==
    /\ \E t \in {"FixedSizeBinary", "Decimal"} : Start(t)
    /\ \E c \in Capacities, byte_width \in 0..MaxStride, decimal \in DecimalTypes :
        fsb = Some(NewFixed(target, c, byte_width, decimal))
    /\ twin = fsb
    /\ pbFresh /\ bbFresh /\ fslFresh /\ ubFresh /\ dbFresh
    /\ bufFresh /\ bitsFresh /\ lbFresh /\ sbFresh /\ seededFresh

\* The bookkeeping of a call that returned r.result and left builder r.self
\* for the program's builder, and tw for the twin.
FsbCalled(op, args, r, tw, slots) ==
    /\ fsb' = Some(r.self)
    /\ twin' = Some(tw)
    /\ call' = Call(op, args) /\ ret' = r.result
    /\ hist' = hist \o slots
    /\ done' = None
    /\ UNCHANGED others_fsb

FsbAppendValue ==
    /\ target = "FixedSizeBinary" /\ FSB.builder.len < MaxListLen
    /\ \E bytes \in SlicesOf(ByteValues) :
        LET r == FixedSizeBinaryBuilder_append_value(FSB, bytes) IN
        FsbCalled("append_value", <<bytes>>, r,
                  FixedSizeBinaryBuilder_append_value(unwrap(twin), bytes).self,
                  IF r.result = Ok THEN <<Slot(TRUE, bytes)>> ELSE <<>>)

DecimalAppendValue ==
    /\ target = "Decimal" /\ FSB.builder.len < MaxListLen
    /\ \E v \in DecimalValues :
        LET r == DecimalBuilder_append_value(FSB, v) IN
        FsbCalled("append_value", <<v>>, r,
                  DecimalBuilder_append_value(unwrap(twin), v).self,
                  IF r.result = Ok THEN <<Slot(TRUE, v)>> ELSE <<>>)

FsbAppendNull ==
    /\ target \in {"FixedSizeBinary", "Decimal"} /\ FSB.builder.len < MaxListLen
    /\ FsbCalled("append_null", <<>>,
                 [result |-> Ok, self |-> FixedSizeBinaryBuilder_append_null(FSB)],
                 FixedSizeBinaryBuilder_append_null(unwrap(twin)),
                 <<Slot(FALSE, <<>>)>>)

\* finish of a builder of kind t
FinishFixed(t, b) ==
    IF t = "FixedSizeBinary" THEN FixedSizeBinaryBuilder_finish(b) ELSE DecimalBuilder_finish(b)

FsbFinish ==
    /\ target \in {"FixedSizeBinary", "Decimal"} /\ ret.status # "panic"
    /\ LET r == FinishFixed(target, FSB) IN
        /\ fsb' = Some(r.self)
        /\ ret' = IF r.panicked THEN Panic ELSE Returned(unwrap(r.array))
    /\ \E c \in Capacities :
        twin' = Some(NewFixed(target, c, FixedSizeListBuilder_value_length(FSB.builder),
                              IF target = "Decimal" THEN <<FSB.precision, FSB.scale>>
                              ELSE <<0, 0>>))
    /\ call' = Call("finish", <<>>)
    /\ done' = Some(hist)
    /\ hist' = <<>>
    /\ UNCHANGED others_fsb

NextFsb == FsbAppendValue \/ DecimalAppendValue \/ FsbAppendNull \/ FsbFinish

SpecFsb == InitFsb /\ [][NextFsb]_vars

\* ------------------------------------------------------- program: StructBuilder

others_sb == <<target, seeded, pb, bb, fsl, ub, db, buf, bits, lb, fsb, nulled>>

SB == unwrap(sb)
\* The data types of the struct's fields: field 0 an Int32, field 1 a Boolean.
StructFields == <<<<"Int32">>, <<"Boolean">>>>

InitStruct ==
    /\ Start("Struct")
    /\ \E c \in Capacities : sb = Some(StructBuilder_from_fields(StructFields, c))
    /\ twin = sb
    /\ pbFresh /\ bbFresh /\ fslFresh /\ ubFresh /\ dbFresh
    /\ bufFresh /\ bitsFresh /\ lbFresh /\ fsbFresh /\ seededFresh

\* The bookkeeping of a call that applied f to the builder.
StructCalled(op, args, f(_), events) ==
    /\ sb' = Some(f(SB))
    /\ twin' = Some(f(unwrap(twin)))
    /\ call' = Call(op, args) /\ ret' = Ok
    /\ hist' = hist \o events
    /\ done' = None
    /\ UNCHANGED others_sb

FieldRoom(i) == ArrayBuilder_len(SB.field_builders[i]) < MaxStructLen

\* builder.field_builder::<Int32Builder>(0).append_value(v) / append_null()
StructInt32Append ==
    /\ target = "Struct" /\ FieldRoom(1)
    /\ \E v \in {None} \cup {Some(x) : x \in PrimValues} :
        StructCalled("field_builder(0).append_option", <<v>>,
                     LAMBDA b : [b EXCEPT !.field_builders[1].builder =
                                     PrimitiveBuilder_append_option(@, v, Int32Type)],
                     <<>>)

\* builder.field_builder::<BooleanBuilder>(1).append_value(v) / append_null()
StructBooleanAppend ==
    /\ target = "Struct" /\ FieldRoom(2)
    /\ \E v \in {None} \cup {Some(x) : x \in BOOLEAN} :
        StructCalled("field_builder(1).append_option", <<v>>,
                     LAMBDA b : [b EXCEPT !.field_builders[2].builder =
                                     BooleanBuilder_append_option(@, v)],
                     <<>>)

StructAppend ==
    /\ target = "Struct" /\ SB.len < MaxStructLen
    /\ \E is_valid \in BOOLEAN :
        StructCalled("append", <<is_valid>>, LAMBDA b : StructBuilder_append(b, is_valid),
                     <<SlotEvent(is_valid)>>)

StructAppendNull ==
    /\ target = "Struct" /\ SB.len < MaxStructLen
    /\ StructCalled("append_null", <<>>, LAMBDA b : StructBuilder_append_null(b),
                    <<SlotEvent(FALSE)>>)

\* finish; done keeps the struct slots the round asked for and the lengths
\* the call found in the child builders.
StructFinish ==
    /\ target = "Struct"
    /\ LET r == StructBuilder_finish(SB) IN
        /\ sb' = Some(r.self)
        /\ ret' = Returned(r.array)
    /\ \E c \in Capacities : twin' = Some(StructBuilder_from_fields(StructFields, c))
    /\ call' = Call("finish", <<>>)
    /\ done' = Some([slots |-> hist,
                     child_lens |-> [i \in 1..Len(SB.field_builders) |->
                                        ArrayBuilder_len(SB.field_builders[i])]])
    /\ hist' = <<>>
    /\ UNCHANGED others_sb

NextStruct ==
    \/ StructInt32Append \/ StructBooleanAppend \/ StructAppend \/ StructAppendNull
    \/ StructFinish

SpecStruct == InitStruct /\ [][NextStruct]_vars

\* ------------------------------ program: StructBuilder::from_fields over a schema

\* The declared types of the schemas' fields: three leaf types, a list type
\* (no arm in make_builder), and structs over them, nested up to three deep.
ListOfInt32 == <<"List", <<<<"Int32">>>>>>
DataTypes ==
    {<<"Int32">>, <<"Boolean">>, <<"Utf8">>, ListOfInt32,
     <<"Struct", <<<<"Int32">>, <<"Boolean">>>>>>,
     <<"Struct", <<ListOfInt32>>>>,
     <<"Struct", <<<<"Struct", <<<<"Utf8">>, ListOfInt32>>>>>>>>}
\* The schemas: every list of 1..MaxFields fields.
Schemas == UNION {[1..n -> DataTypes] : n \in 1..MaxFields}
\* The builder types field_builder is asked for.
BuilderTypes ==
    {"Int32Builder", "BooleanBuilder", "StringBuilder", "BinaryBuilder", "StructBuilder"}

\* StructBuilder::from_fields(fields, capacity): the builder, or a panic and
\* no builder.
InitSchema ==
    /\ target = "Schema"
    /\ \E fields \in Schemas, c \in Capacities :
        /\ call = Call("from_fields", <<fields, c>>)
        /\ IF from_fields_panics(fields)
           THEN sb = None /\ ret = Panic
           ELSE sb = Some(StructBuilder_from_fields(fields, c)) /\ ret = Ok
    /\ twin = sb
    /\ hist = <<>> /\ done = None /\ nulled = FALSE
    /\ pbFresh /\ bbFresh /\ fslFresh /\ ubFresh /\ dbFresh
    /\ bufFresh /\ bitsFresh /\ lbFresh /\ fsbFresh /\ seededFresh

\* builder.field_builder::<T>(i)
SchemaFieldBuilder ==
    /\ target = "Schema" /\ sb # None
    /\ \E T \in BuilderTypes, i \in 0..(StructBuilder_num_fields(SB) - 1) :
        /\ call' = Call("field_builder", <<T, i>>)
        /\ ret' = Returned(StructBuilder_field_builder(SB, T, i))
    /\ UNCHANGED <<sb, twin, hist, done, others_sb>>

SchemaAppend ==
    /\ target = "Schema" /\ sb # None /\ SB.len < MaxStructLen
    /\ \E is_valid \in BOOLEAN :
        StructCalled("append", <<is_valid>>, LAMBDA b : StructBuilder_append(b, is_valid),
                     <<SlotEvent(is_valid)>>)

SchemaFinish ==
    /\ target = "Schema" /\ sb # None
    /\ LET r == StructBuilder_finish(SB) IN
        /\ sb' = Some(r.self)
        /\ ret' = Returned(r.array)
    /\ \E c \in Capacities : twin' = Some(StructBuilder_from_fields(SB.fields, c))
    /\ call' = Call("finish", <<>>)
    /\ done' = Some([slots |-> hist,
                     child_lens |-> [i \in 1..Len(SB.field_builders) |->
                                        ArrayBuilder_len(SB.field_builders[i])]])
    /\ hist' = <<>>
    /\ UNCHANGED others_sb

NextSchema == SchemaFieldBuilder \/ SchemaAppend \/ SchemaFinish

SpecSchema == InitSchema /\ [][NextSchema]_vars

\* ------------------------------- program: any array builder with a reusable finish

InitReuse ==
    InitPrim \/ InitBool \/ InitFsl \/ InitDict \/ InitList \/ InitFsb \/ InitStruct

NextReuse ==
    NextPrim \/ NextBool \/ NextFsl \/ NextDict \/ NextList \/ NextFsb \/ NextStruct

SpecReuse == InitReuse /\ [][NextReuse]_vars

\* ------------------------------------------------------------------- claims

\* The array the last call returned.
Array == unwrap(ret.value)
\* The slots the round that built it asked for.
Asked == unwrap(done)
NullsAsked == {i \in 1..Len(Asked) : ~Asked[i].valid}

\* C1: FixedSizeListBuilder.finish panics whenever the list has n > 0 slots
\* and the child does not hold exactly n * list_len elements.
C1_FinishPanicsOnMismatch ==
    (/\ target = "FixedSizeList" /\ call.op = "finish"
     /\ Asked.len > 0
     /\ Asked.values_len # Asked.len * fsl.list_len)
        => ret.status = "panic"

\* C2: a dense UnionBuilder's value-offset buffer has one entry per row: as
\* many as len and as many as the type-id buffer.
C2_DenseOffsetPerRow ==
    (target = "Union" /\ is_some(ub) /\ IsDense) =>
        /\ unwrap(UB.value_offset_builder).len = UB.len
        /\ unwrap(UB.value_offset_builder).len = UB.type_id_builder.len

\* The bit a sparse field holds for row i: true where the row is an append
\* to that field.
RowSelects(i, name) == hist[i].kind = "append" /\ hist[i].name = name

\* C3: in a sparse UnionBuilder every registered field has len slots and a
\* bitmap of len bits, true exactly at the rows appended to that field (so
\* false at append_null rows, at other fields' rows and at backfilled rows).
C3_SparseFieldsAligned ==
    (target = "Union" /\ is_some(ub) /\ ~IsDense) =>
        /\ UB.len = Len(hist)
        /\ \A name \in DOMAIN UB.fields :
            LET fd == UB.fields[name] IN
            /\ fd.slots = UB.len
            /\ is_some(fd.bitmap_builder)
            /\ unwrap(fd.bitmap_builder).len = UB.len
            /\ \A i \in 1..UB.len :
                get_bit(unwrap(fd.bitmap_builder).buffer.data, i - 1) <=> RowSelects(i, name)

\* C3 happens: a sparse union whose second field is first used at the third
\* row, after an append_null and an append to another field.
C3_Witness ==
    /\ target = "Union" /\ is_some(ub) /\ ~IsDense
    /\ Len(hist) = 3
    /\ hist[1].kind = "append_null"
    /\ RowSelects(2, "a") /\ RowSelects(3, "b")

\* C4: the children build hands over are in ascending type-id order: child i
\* (from 1) is the field with type id i - 1, whatever order the map iterated in.
C4_ChildrenByTypeId ==
    (target = "Union" /\ call.op = "build") =>
        LET children == unwrap(ret.value).children IN
        /\ Len(children) = Cardinality(DOMAIN Asked.fields)
        /\ \A i \in 1..Len(children) : Asked.fields[children[i].name].type_id = i - 1

\* C4 happens: three fields built from a map that iterated in descending
\* type-id order.
C4_Witness ==
    /\ target = "Union" /\ call.op = "build"
    /\ Len(call.args) = 3
    /\ Asked.fields[call.args[1]].type_id = 2
    /\ Asked.fields[call.args[2]].type_id = 1

\* ArrayBuilder::len of the program's builder.
BuilderLen ==
    CASE target = "Primitive" -> PrimitiveBuilder_len(pb)
      [] target = "Boolean" -> bb.values_builder.len
      [] target = "FixedSizeList" -> fsl.len
      [] target \in DictTargets -> PrimitiveBuilder_len(DB.keys_builder)
      [] target \in ListTargets \cup BytesTargets -> Inner.len
      [] target \in {"FixedSizeBinary", "Decimal"} -> FSB.builder.len
      [] target = "Struct" -> StructBuilder_len(SB)

\* The array a finish of the twin builder gives.
FreshFinish ==
    LET tw == unwrap(twin) IN
    CASE target = "Primitive" -> PrimitiveBuilder_finish(tw, PrimT).array
      [] target = "Boolean" -> BooleanBuilder_finish(tw).array
      [] target = "FixedSizeList" -> unwrap(FixedSizeListBuilder_finish(tw).array)
      [] target = "PrimitiveDictionary" -> PrimitiveDictionaryBuilder_finish(tw, tw.K, DictV).array
      [] target = "StringDictionary" -> StringDictionaryBuilder_finish(tw, tw.K).array
      [] target \in ListTargets \cup BytesTargets -> FinishList(target, tw).array
      [] target \in {"FixedSizeBinary", "Decimal"} -> unwrap(FinishFixed(target, tw).array)
      [] target = "Struct" -> StructBuilder_finish(tw).array

\* How an array's values are laid out: bit-packed or whole bytes, and the
\* layouts of its children.
Bytes == [bits |-> FALSE, children |-> <<>>]
Bits == [bits |-> TRUE, children |-> <<>>]
Parent(children) == [bits |-> FALSE, children |-> children]

Layout ==
    CASE target = "Boolean" -> Bits
      [] target \in {"FixedSizeList", "List", "LargeList"} \cup DictTargets -> Parent(<<Bytes>>)
      [] target = "Struct" -> Parent(<<Bytes, Bits>>)
      [] OTHER -> Bytes

RECURSIVE same_array(_, _, _)
\* Two arrays of one layout with the same type, length, validity and values.
same_array(a, b, layout) ==
    /\ a.data_type = b.data_type
    /\ a.len = b.len
    /\ a.null_count = b.null_count
    /\ \A i \in 0..(a.len - 1) : is_null(a, i) = is_null(b, i)
    /\ IF layout.bits
       THEN \A i \in 0..(a.len - 1) : get_bit(a.buffers[1], i) = get_bit(b.buffers[1], i)
       ELSE a.buffers = b.buffers
    /\ Len(a.child_data) = Len(layout.children)
    /\ Len(b.child_data) = Len(layout.children)
    /\ \A k \in 1..Len(layout.children) :
        same_array(a.child_data[k], b.child_data[k], layout.children[k])

\* C11: a finish that returns leaves the builder with len() = 0, and the
\* array it returns has the type, length, validity and values of the array a
\* newly created builder returns when given the calls made since the previous
\* finish.
C11_FinishStartsAfresh ==
    [][(call'.op = "finish" /\ ret'.status = "Ok") =>
        /\ BuilderLen' = 0
        /\ same_array(unwrap(ret'.value), FreshFinish, Layout)]_vars

\* C11 happens: a PrimitiveBuilder that held a null in an earlier round
\* finishes a round of two valid slots.
C11_Witness ==
    /\ target = "Primitive" /\ call.op = "finish"
    /\ nulled /\ Asked = <<Slot(TRUE, 1), Slot(TRUE, -2)>>
    /\ Array.len = 2 /\ Array.null_count = 0

\* The appends of the round so far, and whether their values differ pairwise.
Appends == {i \in 1..Len(hist) : ~hist[i].null}
PairwiseDistinct == \A i, j \in Appends : i # j => hist[i].bytes # hist[j].bytes

\* C5: with a 1-byte key type, appending pairwise distinct values to an empty
\* dictionary builder succeeds for the first 256 values and fails with
\* DictionaryKeyOverflowError on the 257th.
C5_OverflowAt257th ==
    (/\ target \in DictTargets /\ size_of(DB.K) = 1
     /\ call.op = "append" /\ Appends = 1..Len(hist) /\ PairwiseDistinct)
        => ret.status = (IF Len(hist) <= 256 THEN "Ok" ELSE "DictionaryKeyOverflowError")

\* The keys a dictionary builder's keys builder holds.
DictKeys(d) == typed_data(d.keys_builder.values_builder.buffer.data, d.K)
\* The first append of the round with these bytes, if any.
EarlierAppends(bytes) == {i \in Appends : hist[i].bytes = bytes /\ hist[i].result.status = "Ok"}
FirstAppend(bytes) == CHOOSE i \in EarlierAppends(bytes) : \A j \in EarlierAppends(bytes) : i <= j

\* C6: appending a value that was appended before in the round returns the
\* key of its first append, appends that key to the keys builder, and leaves
\* the values builder and the map as they were.
C6_RepeatKeepsDictionary ==
    [][(/\ target \in DictTargets /\ call'.op = "append"
        /\ EarlierAppends(call'.args[1]) # {})
          => LET key == hist[FirstAppend(call'.args[1])].result IN
             /\ ret' = key
             /\ DictKeys(unwrap(db')) = Append(DictKeys(DB), unwrap(key.value))
             /\ unwrap(db').values_builder = DB.values_builder
             /\ unwrap(db').map = DB.map]_vars

\* C6 happens: a string appended again after a null and another string.
C6_Witness ==
    /\ target = "StringDictionary" /\ call.op = "append"
    /\ Len(hist) = 4
    /\ ~hist[1].null /\ hist[2].null /\ ~hist[3].null
    /\ hist[3].bytes # hist[1].bytes /\ hist[4].bytes = hist[1].bytes

RECURSIVE first_seen(_, _)
\* The distinct values of the round's appends, in first-seen order.
first_seen(seen, rest) ==
    IF rest = <<>> THEN seen
    ELSE first_seen(IF Head(rest).null \/ (\E k \in DOMAIN seen : seen[k] = Head(rest).bytes)
                    THEN seen ELSE Append(seen, Head(rest).bytes),
                    Tail(rest))

\* The length of a dictionary builder's values builder.
DictValuesLen ==
    IF target = "PrimitiveDictionary" THEN PrimitiveBuilder_len(DB.values_builder)
    ELSE DB.values_builder.builder.len

\* C7: the k-th distinct value (from 0) has key k; the keys of the map are
\* 0 .. d-1 for d the length of the values builder; no two values share a key.
C7_KeysDenseFirstSeen ==
    target \in DictTargets =>
        LET first == first_seen(<<>>, hist) IN
        /\ DOMAIN DB.map = {first[k] : k \in DOMAIN first}
        /\ \A k \in DOMAIN first : DB.map[first[k]] = k - 1
        /\ {DB.map[b] : b \in DOMAIN DB.map} = 0..(DictValuesLen - 1)
        /\ \A a, b \in DOMAIN DB.map : a # b => DB.map[a] # DB.map[b]

\* C7 happens: three distinct values, the first of them appended twice.
C7_Witness ==
    /\ target = "PrimitiveDictionary"
    /\ DB.keys_builder.values_builder.len = 4
    /\ DictValuesLen = 3
    /\ Len(hist) = 4 /\ ~hist[2].null /\ hist[2].bytes = hist[1].bytes

\* C8: a PrimitiveBuilder that was never asked for a null slot holds no bitmap
\* builder, and the array its finish returns has no validity buffer and null
\* count 0.
C8_NoNullNoBitmap ==
    (target = "Primitive" /\ ~nulled) =>
        /\ ~is_some(pb.bitmap_builder)
        /\ call.op = "finish" =>
            /\ ~is_some(Array.null_bit_buffer)
            /\ Array.null_count = 0

\* C8 happens: a full-length array finished by a builder never asked for a null.
C8_Witness ==
    /\ target = "Primitive" /\ ~nulled
    /\ call.op = "finish" /\ Len(Asked) = MaxLen

\* C9: the array PrimitiveBuilder.finish returns has one slot per slot asked
\* for, is null exactly where a null was asked for, counts those nulls, holds
\* the value asked for at every other slot, and carries a validity buffer
\* exactly when it has a null.
C9_FinishMatchesAppends ==
    (target = "Primitive" /\ call.op = "finish") =>
        /\ Array.len = Len(Asked)
        /\ \A i \in 1..Len(Asked) : is_null(Array, i - 1) <=> ~Asked[i].valid
        /\ Array.null_count = Cardinality(NullsAsked)
        /\ \A i \in 1..Len(Asked) : Asked[i].valid => value(Array, i - 1, PrimT) = Asked[i].v
        /\ is_some(Array.null_bit_buffer) <=> Array.null_count > 0

\* C9 happens: a finished array with a null after a valid negative value.
C9_Witness ==
    /\ target = "Primitive" /\ call.op = "finish"
    /\ \E i, j \in 1..Len(Asked) : i < j /\ Asked[i].valid /\ Asked[i].v < 0 /\ ~Asked[j].valid

\* C10: append_values with slices of different lengths returns
\* InvalidArgumentError and leaves the PrimitiveBuilder or BooleanBuilder as
\* it was, bitmap included.
C10_AppendValuesLengthMismatch ==
    [][(call'.op = "append_values" /\ call'.args[1] # call'.args[2]) =>
          /\ ret'.status = "InvalidArgumentError"
          /\ pb' = pb /\ bb' = bb
          /\ hist' = hist]_vars

\* C10 happens: a failed append_values on a non-empty PrimitiveBuilder that
\* has no bitmap yet.
C10_Witness ==
    /\ target = "Primitive"
    /\ call.op = "append_values" /\ call.args[1] # call.args[2]
    /\ ret.status = "InvalidArgumentError"
    /\ hist # <<>> /\ ~is_some(pb.bitmap_builder)

\* The buffer a finish returned.
Frozen == unwrap(ret.value)

\* C12: BufferBuilder::finish returns the elements appended since creation or
\* the previous finish and nothing else, and leaves the builder with len 0
\* and capacity 0.
C12_FinishFreezesAndResets ==
    (target = "Buffer" /\ call.op = "finish") =>
        /\ typed_data(Frozen, buf.T) = Asked
        /\ Len(Frozen) = Len(Asked) * size_of(buf.T)
        /\ buf.builder.len = 0
        /\ BufferBuilder_capacity(buf.builder, buf.T) = 0

\* C12 happens: a finish that froze two elements.
C12_Witness ==
    /\ target = "Buffer" /\ call.op = "finish"
    /\ buf.T = Int32Type
    /\ Asked = <<300, -2>>

\* C13: the buffer finish returns is the concatenation, in call order, of the
\* encodings of what append, append_n, append_slice and advance (zeros) added.
C13_FrozenIsConcatenation ==
    (target = "Buffer" /\ call.op = "finish") => Frozen = concat_bytes(Asked, buf.T)

\* C13 happens: zeros of an advance between appended elements.
C13_Witness ==
    /\ target = "Buffer" /\ call.op = "finish"
    /\ buf.T = Int32Type
    /\ Asked = <<-2, 0, 300>>

\* The length and the contents of the builder's byte region.
RegionMatchesLen ==
    target = "Buffer" => Len(buf.builder.buffer.data) = buf.builder.len * size_of(buf.T)

\* What each call does to len(), and that reserve keeps the contents.
LenSteps ==
    LET len == buf.builder.len
        len_after == buf'.builder.len
        args == call'.args IN
    target = "Buffer" =>
        /\ call'.op = "append" => len_after = len + 1
        /\ call'.op = "append_n" => len_after = len + args[1]
        /\ call'.op = "append_slice" => len_after = len + Len(args[1])
        /\ call'.op = "advance" => len_after = len + args[1]
        /\ call'.op = "reserve" =>
            len_after = len /\ buf'.builder.buffer.data = buf.builder.buffer.data

\* C14: the byte region of a BufferBuilder<T> is always len() * size_of(T)
\* bytes long; append, append_n, append_slice and advance add 1, n, |xs| and n
\* to len(); reserve changes neither len() nor the contents.
C14_RegionIsLenTimesSize == []RegionMatchesLen /\ [][LenSteps]_vars

\* C14 happens: a reserve that grew the capacity of a builder holding elements
\* from an advance.
C14_Witness ==
    /\ target = "Buffer" /\ call.op = "reserve"
    /\ buf.T = Int32Type /\ buf.builder.len = 3
    /\ buf.builder.buffer.capacity > 64
    /\ hist[3] = 0

\* Bit i of the physical buffer is the i-th logical bit; the bits past len()
\* are zero.
BitsAsAppended ==
    target = "Bits" =>
        /\ bits.len = Len(hist)
        /\ \A i \in 0..(bits.len - 1) : get_bit(bits.buffer.data, i) = hist[i + 1]
        /\ \A i \in bits.len..(8 * Len(bits.buffer.data) - 1) : ~get_bit(bits.buffer.data, i)

RECURSIVE appended_singly(_, _)
\* The builder after one append per bit of a sequence.
appended_singly(b, bs) ==
    IF bs = <<>> THEN b
    ELSE appended_singly(BooleanBufferBuilder_append(b, Head(bs)), Tail(bs))

\* The length and the bytes of a BooleanBufferBuilder.
Contents(b) == <<b.len, b.buffer.data>>

\* append_n and append_slice leave what the single appends would leave.
BatchAsSingles ==
    target = "Bits" =>
        /\ call'.op = "append_n" =>
            Contents(bits') = Contents(appended_singly(bits, [i \in 1..call'.args[1] |->
                                                                call'.args[2]]))
        /\ call'.op = "append_slice" =>
            Contents(bits') = Contents(appended_singly(bits, call'.args[1]))

\* C15: bit i of a BooleanBufferBuilder's buffer (LSB first) is set exactly
\* when the i-th appended bit was true, every bit from len() on is zero, and
\* append_n / append_slice leave the length and bytes that the same bits
\* appended one by one leave.
C15_BitsAsAppended == []BitsAsAppended /\ [][BatchAsSingles]_vars

\* C15 happens: an append_n of nine true bits that crosses a byte boundary
\* after a false bit.
C15_Witness ==
    /\ target = "Bits" /\ call = Call("append_n", <<9, TRUE>>)
    /\ bits.len = 10 /\ ~hist[1]
    /\ bits.buffer.data[2] = 3

\* C16: whatever capacity hint it was created with, a BooleanBufferBuilder
\* holding n bits has a buffer of ceil(n / 8) bytes, and so has the buffer
\* its finish returns.
C16_BytesAreCeilOfBits ==
    target = "Bits" =>
        /\ bits.len > 0 => Len(bits.buffer.data) = ceil(bits.len, 8)
        /\ call.op = "finish" => Len(Frozen) = ceil(Len(Asked), 8)

\* The slots of a round of the list programs, in order.
Slots(events) == SelectSeq(events, LAMBDA e : e.slot)

RECURSIVE widths(_, _)
\* For each slot of a round, the number of child elements appended between
\* the slot before it (or the start of the round) and the slot itself.
widths(events, pending) ==
    IF events = <<>> THEN <<>>
    ELSE IF Head(events).slot THEN <<pending>> \o widths(Tail(events), 0)
         ELSE widths(Tail(events), pending + Head(events).n)

\* The entries of the offsets builder of the program's list builder.
Offsets == typed_data(Inner.offsets_builder.buffer.data, LB.OffsetSize)

\* C17: the offsets builder of a GenericListBuilder holds len() + 1 entries,
\* the first is 0, they never decrease, and each entry exceeds the one before
\* by the number of child elements appended between the two append calls.
C17_OffsetsFollowAppends ==
    target \in ListTargets \cup BytesTargets =>
        LET w == widths(hist, 0) IN
        /\ Inner.len = Len(w)
        /\ Inner.offsets_builder.len = Inner.len + 1
        /\ Len(Offsets) = Inner.len + 1
        /\ Offsets[1] = 0
        /\ \A i \in 1..Inner.len : Offsets[i + 1] >= Offsets[i] /\ Offsets[i + 1] - Offsets[i] = w[i]

\* C17 happens: a LargeListBuilder holding an empty slot and a slot of two
\* elements.
C17_Witness ==
    /\ target = "LargeList"
    /\ Inner.len = 2
    /\ Offsets = <<0, 0, 2>>

\* What append(is_valid) changes and what it leaves alone.
AppendFrame ==
    (target \in ListTargets \cup BytesTargets /\ call'.op = "append") =>
        LET before == Inner
            after == ListOf(unwrap(lb')) IN
        /\ after.values_builder = before.values_builder
        /\ after.len = before.len + 1
        /\ after.bitmap_builder.len = before.bitmap_builder.len + 1
        /\ after.offsets_builder.len = before.offsets_builder.len + 1

\* What the slots of the finished list array are.
SlotsAsAppended ==
    (target \in ListTargets \cup BytesTargets /\ call.op = "finish") =>
        LET slots == Slots(Asked)
            w == widths(Asked, 0)
            offsets == typed_data(Array.buffers[1], LB.OffsetSize) IN
        /\ Array.len = Len(slots)
        /\ Array.null_count = Cardinality({i \in 1..Len(slots) : ~slots[i].is_valid})
        /\ \A i \in 1..Len(slots) :
            /\ is_null(Array, i - 1) = ~slots[i].is_valid
            /\ w[i] = 0 => offsets[i + 1] - offsets[i] = 0

\* C18: GenericListBuilder::append changes the offsets, the bitmap and len
\* and leaves the child builder alone; append(true) with nothing added to the
\* child records a valid slot of length 0, append(false) a null slot, and the
\* finished array's null count is the number of append(false) calls.
C18_AppendLeavesChild == []SlotsAsAppended /\ [][AppendFrame]_vars

\* C18 happens: a list array finished from append(true) with no child
\* elements, then append(false) after one child element.
C18_Witness ==
    /\ target = "List" /\ call.op = "finish"
    /\ Asked = <<SlotEvent(TRUE), ChildEvent(1), SlotEvent(FALSE)>>
    /\ Array.null_count = 1

\* The bytes of the child builder of the program's fixed-size builder.
ChildBytes(b) == b.builder.values_builder.values_builder.buffer.data

\* C19: FixedSizeBinaryBuilder::append_value returns InvalidArgumentError
\* when the slice is not byte_width long and then leaves the builder as it
\* was; otherwise it writes the byte_width bytes of the slice to the child and
\* adds one valid slot.
C19_AppendValueChecksWidth ==
    [][(target = "FixedSizeBinary" /\ call'.op = "append_value") =>
        LET bytes == call'.args[1]
            after == unwrap(fsb') IN
        IF Len(bytes) # FSB.builder.list_len
        THEN ret'.status = "InvalidArgumentError" /\ fsb' = fsb
        ELSE /\ ret' = Ok
             /\ ChildBytes(after) = ChildBytes(FSB) \o bytes
             /\ Len(ChildBytes(after)) = Len(ChildBytes(FSB)) + FSB.builder.list_len
             /\ after.builder.len = FSB.builder.len + 1
             /\ after.builder.bitmap_builder.len = FSB.builder.bitmap_builder.len + 1
             /\ get_bit(after.builder.bitmap_builder.buffer.data, FSB.builder.len)]_vars

\* C19 happens: a slice of one byte refused by a builder of width 2 that
\* holds a slot.
C19_Witness ==
    /\ target = "FixedSizeBinary" /\ call.op = "append_value"
    /\ Len(call.args[1]) = 1 /\ FSB.builder.list_len = 2
    /\ ret.status = "InvalidArgumentError"
    /\ FSB.builder.len = 1

\* C20: StructBuilder::len() is always the length of the first child field
\* builder, whatever child appends and struct append / append_null calls
\* were made.
C20_LenIsFirstChildLen ==
    target = "Struct" => StructBuilder_len(SB) = ArrayBuilder_len(SB.field_builders[1])

\* C21: StructBuilder::finish returns an array whose length is the number of
\* struct append / append_null calls of the round and whose null count is the
\* number of them with is_valid = false; the validity buffer is attached only
\* when that count is positive; child i of the array is what child builder i
\* held (its length, its data type), every child builder is left empty, and
\* the struct builder is left with len() = 0 and an empty bitmap.
C21_StructFinish ==
    (target = "Struct" /\ call.op = "finish") =>
        LET nulls == {i \in 1..Len(Asked.slots) : ~Asked.slots[i].is_valid} IN
        /\ Array.len = Len(Asked.slots)
        /\ Array.null_count = Cardinality(nulls)
        /\ is_some(Array.null_bit_buffer) <=> nulls # {}
        /\ \A i \in 1..Array.len : is_null(Array, i - 1) <=> i \in nulls
        /\ Len(Array.child_data) = Len(StructFields)
        /\ \A i \in 1..Len(StructFields) :
            /\ Array.child_data[i].len = Asked.child_lens[i]
            /\ Array.child_data[i].data_type = StructFields[i][1]
            /\ ArrayBuilder_len(SB.field_builders[i]) = 0
        /\ StructBuilder_len(SB) = 0
        /\ SB.bitmap_builder.len = 0
        /\ SB.bitmap_builder.buffer.data = <<>>

\* A finished struct of two slots, the second null, over children of 2 and 1
\* elements.
C21_Witness ==
    /\ target = "Struct" /\ call.op = "finish"
    /\ Asked.slots = <<SlotEvent(TRUE), SlotEvent(FALSE)>>
    /\ Asked.child_lens = <<2, 1>>
    /\ Array.null_count = 1

\* The dictionary the builder was seeded with, the indices at which it holds
\* the string with these bytes, and the indices of its null entries.
Seed == unwrap(seeded)
SeededAt(bytes) ==
    {i \in 0..(Seed.len - 1) :
        Array_is_valid(Seed, i) /\ as_bytes(StringArray_value(Seed, i)) = bytes}
LastSeededAt(bytes) == CHOOSE i \in SeededAt(bytes) : \A j \in SeededAt(bytes) : j <= i
SeedBytes == {as_bytes(StringArray_value(Seed, i)) :
                 i \in {j \in 0..(Seed.len - 1) : Array_is_valid(Seed, j)}}
NullEntries == {i \in 0..(Seed.len - 1) : ~Array_is_valid(Seed, i)}

\* Every entry of the seed, null or not, occupies its index in the values
\* builder, and no key of the map is the index of a null entry.
SeedOccupiesIndices ==
    LET values == DB.values_builder.builder IN
    /\ values.len >= Seed.len
    /\ \A i \in 0..(Seed.len - 1) :
        get_bit(values.bitmap_builder.buffer.data, i) = Array_is_valid(Seed, i)
    /\ \A bytes \in DOMAIN DB.map : DB.map[bytes] \notin NullEntries

\* An append of a value in the map returns the key the map holds, an append
\* of any other value the length of the dictionary; never the index of a null
\* entry.
SeededAppend ==
    (seeded # None /\ call'.op = "append") =>
        LET bytes == call'.args[1] IN
        /\ ret' = IF bytes \in DOMAIN DB.map THEN Returned(DB.map[bytes])
                  ELSE Returned(DB.values_builder.builder.len)
        /\ unwrap(ret'.value) \notin NullEntries

\* C22 as stated: new_with_dictionary maps each non-null entry at index i to
\* key i; null entries are not in the map yet occupy their index; an append
\* of a seeded value returns its seeded index, an append of an unseeded value
\* the current dictionary length, and never the index of a null entry.
C22_EachEntryMapsToItsIndex ==
    seeded # None =>
        /\ \A i \in 0..(Seed.len - 1) :
            Array_is_valid(Seed, i) =>
                LET bytes == as_bytes(StringArray_value(Seed, i)) IN
                bytes \in DOMAIN DB.map /\ DB.map[bytes] = i
        /\ SeedOccupiesIndices

\* C22, amended: a string of the dictionary is mapped to the last index at
\* which the dictionary holds it (to its index when the dictionary holds it
\* once); the rest as stated.
C22_SeededKeys ==
    /\ [](seeded # None =>
            /\ \A bytes \in SeedBytes :
                bytes \in DOMAIN DB.map /\ DB.map[bytes] = LastSeededAt(bytes)
            /\ SeedOccupiesIndices)
    /\ [][SeededAppend]_vars

\* Over the dictionary [null, "a"]: the empty string was appended and got key
\* 2, then "a" was appended and got its seeded key 1.
C22_Witness ==
    /\ seeded # None /\ Seed.len = 2 /\ NullEntries = {0} /\ SeededAt(<<97>>) = {1}
    /\ Len(hist) = 2
    /\ hist[1].bytes = <<>> /\ hist[1].result = Returned(2)
    /\ hist[2].bytes = <<97>> /\ hist[2].result = Returned(1)

\* C23: a dictionary append that fails with DictionaryKeyOverflowError leaves
\* the builder as it was (keys builder, values builder and map); only a value
\* that is not in the map can fail, so an append of a value seen before
\* succeeds with its key, also after a failure.
C23_OverflowLeavesBuilder ==
    [][(target \in DictTargets /\ call'.op = "append") =>
        LET bytes == call'.args[1]
            after == unwrap(db') IN
        /\ ret'.status = "DictionaryKeyOverflowError" =>
            /\ after = DB
            /\ PrimitiveBuilder_len(after.keys_builder) = PrimitiveBuilder_len(DB.keys_builder)
            /\ after.map = DB.map
            /\ bytes \notin DOMAIN DB.map
        /\ bytes \in DOMAIN DB.map =>
            /\ ret' = Returned(DB.map[bytes])
            /\ PrimitiveBuilder_len(after.keys_builder) = PrimitiveBuilder_len(DB.keys_builder) + 1
            /\ after.values_builder = DB.values_builder
            /\ after.map = DB.map]_vars

\* An append failed with the overflow error and the append of a value seen
\* before, made next, returned its key 0.
C23_Witness ==
    /\ target \in DictTargets /\ Len(hist) > 2
    /\ hist[Len(hist) - 1].result.status = "DictionaryKeyOverflowError"
    /\ hist[Len(hist)].bytes = hist[1].bytes
    /\ hist[Len(hist)].result = Returned(0)
    /\ ret = Returned(0)

\* The 16-byte little-endian two's complement form of a value of at most 32
\* bits: its low four bytes, then the sign extension.
SixteenBytes(v) ==
    [i \in 1..16 |-> IF i <= 4 THEN (v \div (256 ^ (i - 1))) % 256
                      ELSE IF v < 0 THEN 255 ELSE 0]

\* The stride of a DecimalBuilder is 16, its child holds 16 bytes for each
\* slot, and no call of it returned an error or panicked.
DecimalStride ==
    target = "Decimal" =>
        /\ FixedSizeListBuilder_value_length(FSB.builder) = 16
        /\ Len(ChildBytes(FSB)) = 16 * FSB.builder.len
        /\ ret.status = "Ok"

\* append_value writes the value's 16 bytes and adds a valid slot; append_null
\* writes 16 zero bytes and adds a null slot.
DecimalAppends ==
    (target = "Decimal" /\ call'.op \in {"append_value", "append_null"}) =>
        LET after == unwrap(fsb') IN
        /\ ChildBytes(after) =
               ChildBytes(FSB) \o (IF call'.op = "append_value" THEN SixteenBytes(call'.args[1])
                                   ELSE [i \in 1..16 |-> 0])
        /\ after.builder.len = FSB.builder.len + 1
        /\ get_bit(after.builder.bitmap_builder.buffer.data, FSB.builder.len)
               = (call'.op = "append_value")

\* C24: DecimalBuilder has a stride of 16 bytes whatever its precision and
\* scale; append_value writes the full 16-byte little-endian form of the value
\* and append_null 16 zero bytes, neither returns an error, the child holds
\* 16 * len() bytes after any calls, and so finish never fails its length
\* check.
C24_DecimalStrideIs16 == []DecimalStride /\ [][DecimalAppends]_vars

\* A finished decimal array of precision 5 over [-2, null].
C24_Witness ==
    /\ target = "Decimal" /\ call.op = "finish" /\ ret.status = "Ok"
    /\ Len(Asked) = 2 /\ Asked[1].valid /\ ~Asked[2].valid
    /\ Asked[1].v = -2
    /\ Array.data_type = <<"Decimal", 5, 0>>
    /\ Array.len = 2 /\ Len(Array.buffers[1]) = 32
    /\ SubSeq(Array.buffers[1], 1, 2) = <<254, 255>>

\* The child of a FixedSizeBinaryBuilder of width w holds w bytes for each
\* slot, and no finish panicked.
WidthTimesLen ==
    target = "FixedSizeBinary" =>
        /\ Len(ChildBytes(FSB)) = FixedSizeListBuilder_value_length(FSB.builder) * FSB.builder.len
        /\ ret.status # "panic"

\* append_null writes w zero bytes and adds one null slot.
NullWritesZeros ==
    (target = "FixedSizeBinary" /\ call'.op = "append_null") =>
        LET after == unwrap(fsb')
            w == FixedSizeListBuilder_value_length(FSB.builder) IN
        /\ ChildBytes(after) = ChildBytes(FSB) \o [i \in 1..w |-> 0]
        /\ after.builder.len = FSB.builder.len + 1
        /\ ~get_bit(after.builder.bitmap_builder.buffer.data, FSB.builder.len)

\* C29: for a FixedSizeBinaryBuilder of width w >= 0, after any append_value
\* (accepted or refused) and append_null calls the child holds w * len()
\* bytes; append_null writes exactly w zero bytes and one null slot; finish
\* never fails the fixed-size-list length check.
C29_ChildIsWidthTimesLen == []WidthTimesLen /\ [][NullWritesZeros]_vars

\* A builder of width 2 that holds a null slot has just refused a slice of
\* one byte.
C29_Witness ==
    /\ target = "FixedSizeBinary" /\ call.op = "append_value"
    /\ ret.status = "InvalidArgumentError"
    /\ FixedSizeListBuilder_value_length(FSB.builder) = 2
    /\ FSB.builder.len = 1 /\ Len(hist) = 1 /\ ~hist[1].valid
    /\ ChildBytes(FSB) = <<0, 0>>

\* The concrete builder type make_builder's arm for a declared type creates.
ConcreteType(datatype) ==
    CASE datatype[1] = "Int32" -> "Int32Builder"
      [] datatype[1] = "Boolean" -> "BooleanBuilder"
      [] datatype[1] = "Utf8" -> "StringBuilder"
      [] datatype[1] = "Struct" -> "StructBuilder"

\* C25: field_builder::<T>(i), for a valid index i, returns the child builder
\* at i when T is the concrete type of the builder made for field i, and None
\* when T is another builder type; it changes nothing.
C25_FieldBuilderDowncast ==
    [][(target = "Schema" /\ call'.op = "field_builder") =>
        LET T == call'.args[1]
            i == call'.args[2] IN
        /\ sb' = sb
        /\ ret' = Returned(IF T = ConcreteType(SB.fields[i + 1])
                           THEN Some(SB.field_builders[i + 1].builder) ELSE None)]_vars

\* field_builder::<BinaryBuilder>(0) on a struct whose field 0 is an Int32
\* returned None.
C25_Witness ==
    /\ target = "Schema" /\ call.op = "field_builder"
    /\ call.args[1] = "BinaryBuilder" /\ call.args[2] = 0
    /\ SB.fields[1] = <<"Int32">>
    /\ ret = Returned(None)

RECURSIVE HasUnsupported(_)
\* Some field, at some depth, has a declared type without a builder.
HasUnsupported(fields) ==
    \E i \in 1..Len(fields) :
        \/ fields[i][1] \notin {"Int32", "Boolean", "Utf8", "Struct"}
        \/ fields[i][1] = "Struct" /\ HasUnsupported(fields[i][2])

RECURSIVE BuiltFor(_, _)
\* The struct builder holds one child builder for each field, in field
\* order, of the concrete type of the field's declared type; so do its
\* nested struct builders.
BuiltFor(builder, fields) ==
    /\ builder.fields = fields
    /\ Len(builder.field_builders) = Len(fields)
    /\ \A i \in 1..Len(fields) :
        LET f == builder.field_builders[i] IN
        /\ f.type = ConcreteType(fields[i])
        /\ ArrayBuilder_len(f) = 0
        /\ fields[i][1] = "Struct" => BuiltFor(f.builder, fields[i][2])

\* C26: from_fields creates one child builder per field, in field order, of
\* the concrete type matching the field's declared type, recursively for
\* struct fields; when a field at any depth has an unsupported declared type
\* it panics at construction, before any append.
C26_FromFieldsBuildsOrPanics ==
    (target = "Schema" /\ call.op = "from_fields") =>
        IF HasUnsupported(call.args[1])
        THEN sb = None /\ ret = Panic /\ hist = <<>>
        ELSE sb # None /\ ret = Ok /\ BuiltFor(SB, call.args[1])

\* A builder made for [Utf8, Struct[Int32, Boolean]].
C26_Witness ==
    /\ target = "Schema" /\ call.op = "from_fields" /\ sb # None
    /\ Len(SB.fields) = 2
    /\ SB.fields[1] = <<"Utf8">> /\ SB.fields[2] = <<"Struct", <<<<"Int32">>, <<"Boolean">>>>>>
    /\ SB.field_builders[1].type = "StringBuilder"
    /\ SB.field_builders[2].type = "StructBuilder"
    /\ SB.field_builders[2].builder.field_builders[2].type = "BooleanBuilder"

\* The builder a finish leaves.
FinishedListBuilder ==
    (target \in ListTargets /\ call.op = "finish") =>
        /\ Inner.len = 0
        /\ PrimitiveBuilder_len(Inner.values_builder) = 0
        /\ Inner.bitmap_builder.len = 0
        /\ Inner.offsets_builder.len = 1
        /\ Offsets = <<0>>

\* The offsets buffer a finish returns.
FinishedOffsets ==
    (target \in ListTargets /\ call'.op = "finish") =>
        LET offsets == typed_data(unwrap(ret'.value).buffers[1], LB.OffsetSize) IN
        /\ Len(offsets) = Len(Slots(hist)) + 1
        /\ offsets[1] = 0

\* C27: after GenericListBuilder::finish len() is 0, the child builder is
\* finished (length 0), the bitmap is empty and the offsets builder holds the
\* one entry 0; the offsets buffer of every finish, whatever length the child
\* reached in the round before, starts at 0 and has one entry more than the
\* round had append calls.
C27_FinishReseedsOffsets == []FinishedListBuilder /\ [][FinishedOffsets]_vars

\* C27 happens: a round of one slot of one element, finished after a round
\* in which the child had reached two elements.
C27_Witness ==
    /\ target = "List" /\ call.op = "finish"
    /\ Asked.before = Some(2) /\ Asked.child_len = 1
    /\ Array.len = 1
    /\ typed_data(Array.buffers[1], LB.OffsetSize) = <<0, 1>>

\* The bytes in the child builder of a list builder.
ChildData(list) == list.values_builder.values_builder.buffer.data
\* Slot i (from 0) of a list builder is valid.
SlotValid(list, i) == get_bit(list.bitmap_builder.buffer.data, i)

\* What a call added: the bytes p to the child, then one slot with the flag,
\* ending where the child then ended.
AddedSlot(p, flag) ==
    LET before == Inner
        after == ListOf(unwrap(lb'))
        offsets == typed_data(after.offsets_builder.buffer.data, LB.OffsetSize) IN
    /\ ChildData(after) = ChildData(before) \o p
    /\ after.len = before.len + 1
    /\ after.bitmap_builder.len = after.len
    /\ SlotValid(after, before.len) = flag
    /\ \A i \in 0..(before.len - 1) : SlotValid(after, i) = SlotValid(before, i)
    /\ offsets = Offsets \o <<Len(ChildData(before)) + Len(p)>>
    /\ Offsets[before.len + 1] = Len(ChildData(before)) =>
           offsets[after.len + 1] - offsets[after.len] = Len(p)

\* append_value(p) and append_null of the binary and string builders.
BytesAppends ==
    /\ (target \in BytesTargets /\ call'.op = "append_value") =>
           AddedSlot(IF target = "String" THEN as_bytes(call'.args[1]) ELSE call'.args[1], TRUE)
    /\ (target \in BytesTargets /\ call'.op = "append_null") => AddedSlot(<<>>, FALSE)

\* C28: for GenericBinaryBuilder and GenericStringBuilder, append_value(p)
\* adds the bytes of p to the child and then one valid slot, append_null adds
\* no bytes and one null slot; the slot of append_value(p) has the length of
\* p, that of append_null length 0, and the child holds the payloads one after
\* the other in call order.
C28_PayloadThenSlot == [][BytesAppends]_vars

\* C28 happens: a StringBuilder after append_null and then append_value of
\* a string of two bytes.
C28_Witness ==
    /\ target = "String" /\ call.op = "append_value"
    /\ call.args = <<<<233>>>>
    /\ hist = <<SlotEvent(FALSE), ChildEvent(2), SlotEvent(TRUE)>>
    /\ Offsets = <<0, 0, 2>>
    /\ ChildData(Inner) = <<195, 169>>
    /\ ~SlotValid(Inner, 0) /\ SlotValid(Inner, 1)

\* What append(is_valid) and append_null change of a StructBuilder.
StructAppendFrame ==
    (target = "Struct" /\ call'.op \in {"append", "append_null"}) =>
        LET after == unwrap(sb')
            flag == IF call'.op = "append" THEN call'.args[1] ELSE FALSE IN
        /\ after.field_builders = SB.field_builders
        /\ after.fields = SB.fields
        /\ after.len = SB.len + 1
        /\ after.bitmap_builder.len = SB.bitmap_builder.len + 1
        /\ get_bit(after.bitmap_builder.buffer.data, SB.len) = flag
        /\ ret' = Ok

\* finish returns the array whatever lengths the child builders have.
StructFinishUnchecked ==
    (target = "Struct" /\ call.op = "finish") =>
        /\ ret.status = "Ok" /\ ret.value # None
        /\ Array.len = Len(Asked.slots)
        /\ \A i \in 1..Len(Asked.child_lens) : Array.child_data[i].len = Asked.child_lens[i]

\* C30: StructBuilder::append(is_valid) and append_null change the struct's
\* bitmap and len and no child builder; nothing compares the child builders'
\* lengths with len, so append and finish report no error when a child
\* builder holds another number of elements than the struct has slots.
C30_AppendLeavesChildren == []StructFinishUnchecked /\ [][StructAppendFrame]_vars

\* C30 happens: a struct array of two slots finished while the first child
\* builder held no element and the second held one.
C30_Witness ==
    /\ target = "Struct" /\ call.op = "finish"
    /\ Len(Asked.slots) = 2 /\ Asked.child_lens = <<0, 1>>
    /\ Array.len = 2
    /\ Array.child_data[1].len = 0 /\ Array.child_data[2].len = 1

\* The rows of the round that came from append_null.
NullRows == {i \in 1..Len(hist) : hist[i].kind = "append_null"}

\* C31: a UnionBuilder has no top-level bitmap until the first append_null;
\* from then on the bitmap has len bits and bit i is false exactly when row i
\* came from append_null; a union on which append_null was never called is
\* built with no top-level bitmap.
C31_BitmapFromFirstNull ==
    /\ (target = "Union" /\ is_some(ub)) =>
           /\ is_some(UB.bitmap_builder) <=> NullRows # {}
           /\ is_some(UB.bitmap_builder) =>
                  /\ unwrap(UB.bitmap_builder).len = UB.len
                  /\ UB.len = Len(hist)
                  /\ \A i \in 1..UB.len :
                         get_bit(unwrap(UB.bitmap_builder).buffer.data, i - 1) <=> i \notin NullRows
    /\ (target = "Union" /\ call.op = "build") =>
           (is_some(unwrap(ret.value).bitmap) <=> NullRows # {})

\* C31 happens: a dense union whose first append_null is its second row,
\* followed by an append.
C31_Witness ==
    /\ target = "Union" /\ is_some(ub) /\ IsDense
    /\ Len(hist) = 3 /\ NullRows = {2}
    /\ is_some(UB.bitmap_builder)
    /\ unwrap(UB.bitmap_builder).buffer.data[1] = 5

\* The first row appended to the field.
FirstRow(name) ==
    LET rows == {i \in 1..Len(hist) : RowSelects(i, name)}
    IN CHOOSE i \in rows : \A j \in rows : i <= j
\* The names used by the rows before row i.
NamesBefore(i) == {hist[j].name : j \in {j \in 1..(i - 1) : hist[j].kind = "append"}}
\* The number of distinct names used before the field's first row.
Rank(name) == Cardinality(NamesBefore(FirstRow(name)))
\* The entries of the type-id buffer.
TypeIds == typed_data(UB.type_id_builder.buffer.data, Int8Type)

\* C32: the k-th distinct field name used (from 0) has type id k from its
\* first append on; the type-id buffer has len entries, the entry of an append
\* being the field's type id and the entry of an append_null being 0.
C32_TypeIdsInFirstUseOrder ==
    (target \in UnionTargets /\ is_some(ub)) =>
        /\ DOMAIN UB.fields = NamesBefore(Len(hist) + 1)
        /\ \A name \in DOMAIN UB.fields : UB.fields[name].type_id = Rank(name)
        /\ UB.type_id_builder.len = UB.len
        /\ Len(TypeIds) = UB.len
        /\ UB.len = Len(hist)
        /\ \A i \in 1..Len(hist) :
               TypeIds[i] = IF hist[i].kind = "append" THEN Rank(hist[i].name) ELSE 0

\* The entries of the value-offset buffer of a dense union.
ValueOffsets == typed_data(unwrap(UB.value_offset_builder).buffer.data, Int32Type)
\* The slots the field holds, 0 before its first use.
FieldSlots(fields, name) == IF name \in DOMAIN fields THEN fields[name].slots ELSE 0

\* What an append to a dense union changes.
DenseAppend ==
    (target = "Union" /\ is_some(ub) /\ IsDense /\ call'.op = "append") =>
        LET name == hist'[Len(hist')].name
            after == unwrap(ub')
            offsets == typed_data(unwrap(after.value_offset_builder).buffer.data, Int32Type) IN
        /\ offsets = Append(ValueOffsets, FieldSlots(UB.fields, name))
        /\ after.fields[name].slots = FieldSlots(UB.fields, name) + 1
        /\ DOMAIN after.fields = DOMAIN UB.fields \cup {name}
        /\ \A other \in DOMAIN UB.fields \ {name} : after.fields[other] = UB.fields[other]

\* No field of a dense union has a bitmap.
DenseFieldsHaveNoBitmap ==
    (target = "Union" /\ is_some(ub) /\ IsDense) =>
        \A name \in DOMAIN UB.fields : UB.fields[name].bitmap_builder = None

\* C33: in a dense UnionBuilder an append to field f pushes f's slot count
\* before the append onto the value-offset buffer, adds one to f's slot count
\* and leaves every other field as it was; no field gets a bitmap.
C33_DenseOffsetIsSlotCount == []DenseFieldsHaveNoBitmap /\ [][DenseAppend]_vars

\* C33 happens: a dense union after appends to a, b and a again.
C33_Witness ==
    /\ target = "Union" /\ is_some(ub) /\ IsDense /\ call.op = "append"
    /\ Len(hist) = 3
    /\ RowSelects(1, "a") /\ RowSelects(2, "b") /\ RowSelects(3, "a")
    /\ ValueOffsets = <<0, 0, 1>>
    /\ UB.fields["a"].slots = 2 /\ UB.fields["b"].slots = 1

\* C37: every registered field of a UnionBuilder has a type id that is not
\* negative and differs from the type id of every other registered field,
\* however many distinct field names were used.
C37_TypeIdsDistinctNonNegative ==
    (target \in UnionTargets /\ is_some(ub)) =>
        \A name \in DOMAIN UB.fields :
            /\ UB.fields[name].type_id >= 0
            /\ \A other \in DOMAIN UB.fields \ {name} :
                   UB.fields[other].type_id # UB.fields[name].type_id

\* C38: every registered union field keeps the data type of its first use,
\* and its values buffer holds slots times the width of that type in bytes,
\* also after appends that use the field's name with another value type.
C38_ValuesBufferIsSlotsTimesWidth ==
    (target = "Union" /\ is_some(ub)) =>
        \A name \in DOMAIN UB.fields :
            LET fd == UB.fields[name]
                T == hist[FirstRow(name)].T IN
            /\ fd.data_type = T.name
            /\ Len(fd.values_buffer.data) = fd.slots * size_of(T)

\* What append_null changes of a dictionary builder.
DictNullFrame ==
    (target \in DictTargets /\ call'.op = "append_null") =>
        LET after == unwrap(db')
            n == PrimitiveBuilder_len(DB.keys_builder) IN
        /\ after.values_builder = DB.values_builder
        /\ after.map = DB.map
        /\ PrimitiveBuilder_len(after.keys_builder) = n + 1
        /\ DictKeys(after) = Append(DictKeys(DB), 0)
        /\ is_some(after.keys_builder.bitmap_builder)
        /\ unwrap(after.keys_builder.bitmap_builder).len = n + 1
        /\ ~get_bit(unwrap(after.keys_builder.bitmap_builder).buffer.data, n)
        /\ ret' = Ok

\* The key a value not appended before in the round is given: the number of
\* distinct values appended before it, the nulls not counted.
NewValueKey ==
    (/\ target \in DictTargets /\ call'.op = "append"
     /\ EarlierAppends(call'.args[1]) = {})
        => ret' = Returned(Len(first_seen(<<>>, hist)))

\* C35: append_null of a dictionary builder adds one null slot with a zero
\* key to the keys builder and leaves the values builder and the map as they
\* were; it uses up no key: the next new value gets the key it would have
\* got without the append_null.
C35_NullConsumesNoKey == [][DictNullFrame /\ NewValueKey]_vars

\* C35 happens: a second distinct string, appended after two append_null
\* calls, got key 1.
C35_Witness ==
    /\ target = "StringDictionary" /\ call.op = "append"
    /\ Len(hist) = 4
    /\ ~hist[1].null /\ hist[2].null /\ hist[3].null /\ ~hist[4].null
    /\ hist[4].result = Returned(1)
    /\ DictKeys(DB) = <<0, 0, 0, 1>>

\* The builder a dictionary finish leaves.
DictFinishEmpties ==
    (target \in DictTargets /\ call.op = "finish") =>
        /\ DB.map = <<>>
        /\ DictValuesLen = 0
        /\ PrimitiveBuilder_len(DB.keys_builder) = 0

\* After a finish the keys are those of the round's own values, from 0, and
\* the values of the next array are the round's own.
KeysAfterFinish ==
    (target \in DictTargets /\ done # None) =>
        LET first == first_seen(<<>>, hist) IN
        /\ DOMAIN DB.map = {first[k] : k \in DOMAIN first}
        /\ \A k \in DOMAIN first : DB.map[first[k]] = k - 1
        /\ DictValuesLen = Len(first)
        /\ (call.op = "finish" /\ Asked.again) =>
               Array.child_data[1].len = Cardinality(DOMAIN Asked.map)

\* C34: finish of a dictionary builder empties the map with the values and
\* keys builders: after it the first distinct value appended gets key 0
\* whatever key it had before, and the entries a builder was seeded with by
\* new_with_dictionary are neither matched nor in the next array.
C34_FinishClearsMap == DictFinishEmpties /\ KeysAfterFinish

\* C34 happens: a builder seeded with ["é", "a"] was finished and then "a",
\* which had key 1, was appended and got key 0.
C34_Witness ==
    /\ target = "StringDictionary" /\ call.op = "append"
    /\ seeded # None /\ unwrap(seeded).len = 2
    /\ done # None /\ as_bytes(<<97>>) \in DOMAIN Asked.map
    /\ Asked.map[as_bytes(<<97>>)] = 1
    /\ hist = <<[null |-> FALSE, bytes |-> as_bytes(<<97>>), result |-> Returned(0)]>>
    /\ ret = Returned(0)

\* C36: the validity bits and the value bits of a BooleanBuilder have the
\* same length after every operation, a failed append_values included; a null
\* slot has validity bit 0 and value bit 0; finish attaches the validity
\* buffer only when a null was appended in the round.
C36_BooleanBitmapsAligned ==
    target = "Boolean" =>
        /\ bb.bitmap_builder.len = Len(hist)
        /\ bb.values_builder.len = Len(hist)
        /\ \A i \in 1..Len(hist) :
               /\ get_bit(bb.bitmap_builder.buffer.data, i - 1) = hist[i].valid
               /\ get_bit(bb.values_builder.buffer.data, i - 1) = (hist[i].valid /\ hist[i].v)
        /\ call.op = "finish" => (is_some(Array.null_bit_buffer) <=> HasNull(Asked))

\* The bits of a BooleanBuilder are those the calls of the round gave: one
\* validity bit and one value bit per slot, the value bit being the value
\* handed in (false for append_null and append_option(None)).
BooleanBitsFollowCalls ==
    target = "Boolean" =>
        /\ bb.bitmap_builder.len = Len(hist)
        /\ bb.values_builder.len = Len(hist)
        /\ \A i \in 1..Len(hist) :
               /\ get_bit(bb.bitmap_builder.buffer.data, i - 1) = hist[i].valid
               /\ get_bit(bb.values_builder.buffer.data, i - 1) = hist[i].v
        /\ call.op = "finish" => (is_some(Array.null_bit_buffer) <=> HasNull(Asked))

\* append_null adds a validity bit 0 and a value bit 0.
BooleanNullIsZero ==
    (target = "Boolean" /\ call'.op = "append_null") =>
        /\ bb'.bitmap_builder.len = bb.bitmap_builder.len + 1
        /\ bb'.values_builder.len = bb.values_builder.len + 1
        /\ ~get_bit(bb'.bitmap_builder.buffer.data, bb.bitmap_builder.len)
        /\ ~get_bit(bb'.values_builder.buffer.data, bb.values_builder.len)

\* C36, as the code has it: the validity bits and the value bits have the
\* same length after every operation; a null slot of append_null or
\* append_option(None) has validity bit 0 and value bit 0, a null slot of
\* append_values has validity bit 0 and the value bit the caller handed in;
\* finish attaches the validity buffer only when the round has a null.
C36_BitsFollowCalls == []BooleanBitsFollowCalls /\ [][BooleanNullIsZero]_vars

\* C36 happens: after append_null, append_values([true], [false]) added a
\* null slot whose value bit is 1.
C36_Witness ==
    /\ target = "Boolean" /\ call.op = "append_values" /\ ret = Ok
    /\ Len(hist) = 2
    /\ ~hist[1].valid /\ ~hist[1].v /\ ~hist[2].valid /\ hist[2].v
    /\ bb.bitmap_builder.len = 2 /\ bb.values_builder.len = 2
    /\ bb.bitmap_builder.buffer.data[1] = 0 /\ bb.values_builder.buffer.data[1] = 2

\* The PrimitiveBuilder of the program: its own or the keys builder.
ThePrimitiveBuilder == IF target = "Primitive" THEN pb ELSE DB.keys_builder
\* The round a finish ended asked for no null.
AskedNoNull ==
    IF target = "Primitive" THEN ~HasNull(Asked) ELSE \A i \in 1..Len(Asked) : ~Asked[i].null

\* A bitmap builder that exists is as long as the values builder; the array
\* of a round without nulls has null count 0 and no validity buffer, also
\* when the bitmap builder exists.
PrimitiveBitmapAligned ==
    (target \in {"Primitive"} \cup DictTargets) =>
        LET b == ThePrimitiveBuilder IN
        /\ is_some(b.bitmap_builder) =>
               unwrap(b.bitmap_builder).len = PrimitiveBuilder_len(b)
        /\ (call.op = "finish" /\ AskedNoNull) =>
               Array.null_count = 0 /\ Array.null_bit_buffer = None

\* A bitmap builder that exists stays, and a finish leaves it empty.
PrimitiveBitmapStays ==
    (target \in {"Primitive"} \cup DictTargets /\ is_some(ThePrimitiveBuilder.bitmap_builder)) =>
        /\ is_some(ThePrimitiveBuilder'.bitmap_builder)
        /\ call'.op = "finish" => unwrap(ThePrimitiveBuilder'.bitmap_builder).len = 0

\* C39: in a PrimitiveBuilder a bitmap builder that exists has as many bits
\* as the values builder has elements, after every operation; it stays (with
\* length 0) across finish and finish_dict, and a following round of valid
\* appends only still gives an array with null count 0 and no validity
\* buffer.
C39_BitmapStaysAligned == []PrimitiveBitmapAligned /\ [][PrimitiveBitmapStays]_vars

\* C39 happens: the keys builder of a dictionary builder, whose bitmap
\* builder exists from an earlier round, finished a round of two appends and
\* no null.
C39_Witness ==
    /\ target = "PrimitiveDictionary" /\ call.op = "finish"
    /\ Len(Asked) = 2 /\ ~Asked[1].null /\ ~Asked[2].null
    /\ is_some(DB.keys_builder.bitmap_builder)
    /\ unwrap(DB.keys_builder.bitmap_builder).len = 0
    /\ Array.len = 2 /\ Array.null_count = 0 /\ Array.null_bit_buffer = None

====
